---- MODULE Spec2Model ----
(***************************************************************************)
(* Model of the roller-timeline-viewer data path: the OAuth2 token cache    *)
(* and API client of src/api/countroll.ts and the fetch effect of           *)
(* src/pages/AssetPage.tsx.                                                 *)
(*                                                                          *)
(* JavaScript runs one task at a time, so every action below is one task    *)
(* of the event loop together with the microtasks it triggers: a            *)
(* navigation (effect cleanup + effect), the arrival of one network         *)
(* response, or the passing of time.                                        *)
(***************************************************************************)
EXTENDS Integers, Sequences, FiniteSets, TLC

\* ------------------------------------------------------------------ bounds
MaxLoads == 2          \* navigations to an asset id that start a load
MaxTicks == 2          \* clock steps
TickMs == 1000         \* length of one clock step in milliseconds
MaxEvents == 3         \* events of an asset shown to the Timeline

\* --------------------------------------------------------- program constants
BufferMs == 10000      \* expiry buffer of getAccessToken
DAY_MS == 24           \* one day, in the unit of the compressed view: the hour
DefaultGapThresholdDays == 90   \* default of props.gapThresholdDays

\* ------------------------------------------------------------ input domains
AssetIds == {"A", "B"}
Credentials == {"", "user"}
ExpiresInChoices == {11}                \* expires_in of a token response, seconds
HttpStatuses == {200, 404, 500}         \* statuses an API endpoint answers with
AuthFailStatuses == {401}               \* non-2xx statuses of the identity endpoint
ErrorBody == "body"                     \* text of a non-2xx response

\* --------------------------------------------------------------- data values
NoPromise == 0
NoToken == 0
NoId == ""
NoLoad == 0

Err(kind, status, body, id) ==
  [kind |-> kind, status |-> status, body |-> body, id |-> id]

NoError == Err("none", 0, "", "")

\* setError text of the effect when isApiConfigured() is false
ConfigError == Err("config", 0, "", "")

\* Error thrown by fetchNewToken when a credential is missing
MissingCredentials == Err("missing-credentials", 0, "", "")

\* TypeError of a fetch() whose transport failed
NetworkError == Err("network", 0, "", "")

Event(id, type, state) == [id |-> id, type |-> type, state |-> state]

NoAsset == [id |-> NoId, eventsAbsent |-> TRUE, events |-> <<>>]

\* JSON bodies a 2xx answer of GET /api/thing/{id} may carry
AssetBodies(id) ==
  { [id |-> id, eventsAbsent |-> TRUE, events |-> <<>>],
    [id |-> id, eventsAbsent |-> FALSE, events |-> <<>>],
    [id |-> id, eventsAbsent |-> FALSE,
     events |-> <<Event("e1", "OTHER", "HIDDEN"), Event("e2", "OTHER", "VISIBLE")>>] }

PictureEventOf(assetId, eventId, source) ==
  [url |-> <<assetId, eventId>>, source |-> source]

EmptyPictures == [pictureEventsAbsent |-> FALSE, pictureEvents |-> <<>>]

\* JSON bodies a 2xx answer of GET /api/assets/{id}/pictures may carry
PictureBodies(id) ==
  { [pictureEventsAbsent |-> FALSE,
     pictureEvents |-> <<PictureEventOf(id, "e3", "pictures")>>] }

IdleCall ==
  [pc |-> "idle", promise |-> NoPromise, token |-> NoToken,
   sent |-> FALSE, status |-> 0, err |-> NoError]

\* --------------------------------------------------- event types and dates
\* Keys of EVENT_TYPE_CONFIG, the style configuration of the Timeline
EVENT_TYPE_CONFIG ==
  {"RECOVERED", "REGRINDED", "PICTURE", "ENGRAVED", "INITIALIZED",
   "UNINITIALIZED", "LINKED", "UNLINKED", "ROLLER_LINKED_TO_WO", "OTHER"}

\* The filterable types, in display order
MAIN_EVENT_TYPES ==
  <<"RECOVERED", "REGRINDED", "PICTURE", "OTHER", "LINKED", "UNLINKED", "ENGRAVED">>

\* The types selected when the page is constructed and after a reset
DEFAULT_EVENT_TYPES ==
  <<"RECOVERED", "REGRINDED", "PICTURE", "OTHER", "LINKED", "UNLINKED">>

\* The static rows of the timeline, in row order
TIMELINE_GROUPS ==
  << [id |-> "REGRINDED", types |-> <<"REGRINDED">>],
     [id |-> "PICTURE", types |-> <<"PICTURE">>],
     [id |-> "ENGRAVED", types |-> <<"ENGRAVED">>],
     [id |-> "POSITION", types |-> <<"LINKED", "UNLINKED">>],
     [id |-> "OTHER", types |-> <<"OTHER">>] >>

\* Array.prototype.includes
Includes(seq, x) == \E i \in DOMAIN seq : seq[i] = x

\* new Set(array)
SetOf(seq) == {seq[i] : i \in DOMAIN seq}

\* new Date(iso): a local calendar date, months from 0, and the time of day
DateTime(year, month, day, hours, minutes) ==
  [year |-> year, month |-> month, day |-> day,
   hours |-> hours, minutes |-> minutes]

\* new Date(year, monthIndex, day): the start of a local calendar date
Date(year, month, day) == DateTime(year, month, day, 0, 0)

\* Date.prototype.getFullYear
getFullYear(d) == d.year

NoYear == 0            \* dragStart === null
NoCard == "none"       \* no handleReset was the last handler
NoEvent == <<>>        \* selectedEvent === null
NoPictureData == [url |-> <<>>]   \* pictures.find(...) === undefined
NoIndex == -1          \* viewerIndex === null
NoInput == [kind |-> "none"]
NoMaterial == ""       \* coverMaterial absent from the event's JSON

\* An event of the asset's JSON with the fields the page and the Timeline read
AssetEvent(id, type, state, creationDateTime, coverMaterial) ==
  [id |-> id, type |-> type, state |-> state,
   creationDateTime |-> creationDateTime, coverMaterial |-> coverMaterial]

\* The date of the run in the load model, and the dates a page is viewed on
FirstToday == Date(2025, 2, 14)
Todays == {FirstToday, Date(2025, 10, 20)}

\* What an event of a shown asset may be: its type, state, creation date and
\* cover material.  CALIBRATED stands for a type the client does not know.
EventKinds ==
  { [type |-> "RECOVERED", state |-> "VISIBLE",
     creationDateTime |-> DateTime(2024, 4, 17, 10, 30),
     coverMaterial |-> "Rubber"],
    [type |-> "RECOVERED", state |-> "VISIBLE",
     creationDateTime |-> Date(2025, 1, 3), coverMaterial |-> "PU"],
    [type |-> "RECOVERED", state |-> "VISIBLE",
     creationDateTime |-> Date(2025, 0, 9), coverMaterial |-> NoMaterial],
    [type |-> "REGRINDED", state |-> "HIDDEN",
     creationDateTime |-> Date(2024, 6, 1), coverMaterial |-> NoMaterial],
    [type |-> "ENGRAVED", state |-> "VISIBLE",
     creationDateTime |-> DateTime(2024, 0, 20, 8, 0),
     coverMaterial |-> NoMaterial],
    [type |-> "LINKED", state |-> "VISIBLE",
     creationDateTime |-> DateTime(2025, 2, 2, 14, 5),
     coverMaterial |-> NoMaterial],
    [type |-> "UNLINKED", state |-> "VISIBLE",
     creationDateTime |-> Date(2025, 1, 27), coverMaterial |-> NoMaterial],
    [type |-> "INITIALIZED", state |-> "VISIBLE",
     creationDateTime |-> Date(2025, 0, 2), coverMaterial |-> NoMaterial],
    [type |-> "CALIBRATED", state |-> "VISIBLE",
     creationDateTime |-> Date(2025, 2, 1), coverMaterial |-> NoMaterial] }

EventIds == <<"e1", "e2", "e3", "e4", "e5">>

\* The asset with the given id whose i-th event is of kind kinds[i]
AssetOfKinds(id, kinds) ==
  [id |-> id, eventsAbsent |-> FALSE,
   events |-> [i \in DOMAIN kinds |->
                 AssetEvent(EventIds[i], kinds[i].type, kinds[i].state,
                            kinds[i].creationDateTime, kinds[i].coverMaterial)]]

\* The assets shown to the Timeline: up to MaxEvents events of any kinds
TimelineAssets ==
  {AssetOfKinds("A", kinds) :
     kinds \in UNION {[1..n -> EventKinds] : n \in 0..MaxEvents}}

\* The assets shown to the year selector: events in three consecutive years,
\* and events with a year between them missing
FilterAssets ==
  { [id |-> "A", eventsAbsent |-> FALSE,
     events |-> << AssetEvent("e1", "RECOVERED", "VISIBLE", Date(2023, 5, 5), "PU"),
                   AssetEvent("e2", "ENGRAVED", "VISIBLE", Date(2024, 8, 12), NoMaterial),
                   AssetEvent("e3", "LINKED", "VISIBLE", Date(2025, 1, 7), NoMaterial) >>],
    [id |-> "A", eventsAbsent |-> FALSE,
     events |-> << AssetEvent("e1", "RECOVERED", "VISIBLE", Date(2023, 5, 5), "PU"),
                   AssetEvent("e2", "REGRINDED", "HIDDEN", Date(2024, 8, 12), NoMaterial),
                   AssetEvent("e3", "LINKED", "VISIBLE", Date(2025, 1, 7), NoMaterial) >>] }

VARIABLES
  config,         \* [username, password]: import.meta.env, fixed for a run
  now,            \* Date.now()
  cachedToken,    \* module variable cachedToken (NoToken = null)
  tokenExpiry,    \* module variable tokenExpiry
  tokenPromise,   \* module variable tokenPromise: index in tokenPromises, or NoPromise
  tokenPromises,  \* every promise fetchNewToken() has returned, in order
  loads,          \* every run of loadData(), in order
  assetId,        \* route parameter of the mounted AssetPage
  asset,          \* useState asset
  pictures,       \* useState pictures
  loading,        \* useState loading
  error,          \* useState error
  assetBy,        \* history: the load whose setAsset was the last one
  picturesBy,     \* history: the load whose setPictures was the last one
  selectedTypes,  \* useState selectedTypes of AssetPage
  selectedYears,  \* useState selectedYears of AssetPage
  isDragging,     \* useState isDragging of Filters
  dragStart,      \* useState dragStart of Filters (NoYear = null)
  dragMode,       \* dragModeRef.current of Filters
  entered,        \* history: the years entered since the last mousedown
  afterReset,     \* history: the last filter handler that ran was handleReset
  resetFrom,      \* history: the card shown when that handleReset was invoked
  today,          \* new Date(): the local calendar date
  timelineEvents,   \* props.events of the Timeline with the compressed view
  compressed,       \* props.compressed of that Timeline
  gapThresholdDays, \* props.gapThresholdDays of that Timeline
  timelineItems,    \* the items its effect gave to the widget
  sidebarEvents,    \* the ids of the events of the asset the side panel is for
  pictureList,      \* props.pictures of EventSidebar
  selectedEvent,    \* useState selectedEvent of AssetPage: the id, or NoEvent
  pictureData,      \* pictureData of EventSidebar
  libraryPictures,  \* props.pictures of PhotoLibrary
  showPhotoLibrary, \* useState showPhotoLibrary of AssetPage
  viewerIndex,      \* useState viewerIndex of PhotoLibrary (NoIndex = null)
  lastInput         \* history: the last click or key in the photo library

\* The state of the fetch effect and the token cache
dataVars == <<config, now, cachedToken, tokenExpiry, tokenPromise, tokenPromises,
              loads, assetId, asset, pictures, loading, error, assetBy, picturesBy>>

\* The state of the filters
filterVars == <<selectedTypes, selectedYears, isDragging, dragStart, dragMode,
                entered, afterReset, resetFrom>>

\* The state of the components modelled apart from the page
compressVars == <<timelineEvents, compressed, gapThresholdDays, timelineItems>>
sidebarVars == <<sidebarEvents, pictureList, selectedEvent, pictureData>>
libraryVars == <<libraryPictures, showPhotoLibrary, viewerIndex, lastInput>>
widgetVars == <<compressVars, sidebarVars, libraryVars>>

vars == <<config, now, cachedToken, tokenExpiry, tokenPromise, tokenPromises,
          loads, assetId, asset, pictures, loading, error, assetBy, picturesBy,
          selectedTypes, selectedYears, isDragging, dragStart, dragMode,
          entered, afterReset, resetFrom, today,
          timelineEvents, compressed, gapThresholdDays, timelineItems,
          sidebarEvents, pictureList, selectedEvent, pictureData,
          libraryPictures, showPhotoLibrary, viewerIndex, lastInput>>

\* The side panel closed
SidebarAtRest ==
  /\ sidebarEvents = {}
  /\ pictureList = <<>>
  /\ selectedEvent = NoEvent
  /\ pictureData = NoPictureData

\* The photo library closed
LibraryAtRest ==
  /\ libraryPictures = <<>>
  /\ showPhotoLibrary = FALSE
  /\ viewerIndex = NoIndex
  /\ lastInput = NoInput

\* The Timeline with the compressed view not mounted
CompressAtRest ==
  /\ timelineEvents = <<>>
  /\ compressed = FALSE
  /\ gapThresholdDays = DefaultGapThresholdDays
  /\ timelineItems = <<>>

\* The components modelled apart from the page, before they are used
WidgetsAtRest == CompressAtRest /\ SidebarAtRest /\ LibraryAtRest


\* ============================================================ token cache
\* isApiConfigured(): !!(config.username && config.password)
isApiConfigured == config.username # "" /\ config.password # ""

\* Mutation of CacheValid: a cached token is returned whatever its expiry
CacheValid_noExpiryTest(tok, expiry, t) == tok # NoToken

\* Mutation of CacheValid: the comparison with the buffered expiry reversed
CacheValid_reversed(tok, expiry, t) == tok # NoToken /\ t > expiry - BufferMs

\* getAccessToken, first test: cachedToken && Date.now() < tokenExpiry - 10000
CacheValid(tok, expiry, t) == tok # NoToken /\ t < expiry - BufferMs

\* The promise fetchNewToken() returns before its first await: rejected at
\* once when a credential is missing, pending on the POST otherwise.
fetchNewToken ==
  IF config.username = "" \/ config.password = ""
  THEN [state |-> "rejected", posted |-> FALSE, token |-> NoToken,
        err |-> MissingCredentials]
  ELSE [state |-> "pending", posted |-> TRUE, token |-> NoToken,
        err |-> NoError]

\* A caller that awaits promise p: suspended while p is pending, resumed
\* with its token (and then sends its own request) or with its error.
Awaiting(proms, p) ==
  CASE proms[p].state = "pending" ->
         [IdleCall EXCEPT !.pc = "token", !.promise = p]
    [] proms[p].state = "resolved" ->
         [IdleCall EXCEPT !.pc = "http", !.promise = p, !.sent = TRUE,
                          !.token = proms[p].token]
    [] OTHER ->
         [IdleCall EXCEPT !.pc = "done", !.err = proms[p].err]

\* Mutation of InFlight: the stored promise is never joined
InFlight_never(tp) == FALSE

\* The tokenPromise test of getAccessToken: join the stored promise
InFlight(tp) == tp # NoPromise

\* getAccessToken up to its await, called with the marker tp and the
\* promises proms: the marker and promises after the call, and the caller.
getAccessToken(tp, proms) ==
  IF CacheValid(cachedToken, tokenExpiry, now)
  THEN [tp |-> tp, proms |-> proms,
        call |-> [IdleCall EXCEPT !.pc = "http", !.sent = TRUE,
                                  !.token = cachedToken]]
  ELSE IF InFlight(tp)
  THEN [tp |-> tp, proms |-> proms, call |-> Awaiting(proms, tp)]
  ELSE LET proms2 == Append(proms, fetchNewToken)
       IN [tp |-> Len(proms2), proms |-> proms2,
           call |-> Awaiting(proms2, Len(proms2))]

\* Mutation of Finally: the marker is cleared after the await instead of in
\* a finally block, so a rejected refresh leaves it set
Finally_onSuccessOnly(tp, state) == IF state = "resolved" THEN NoPromise ELSE tp

\* The finally block of getAccessToken, run by the caller that created the
\* promise once that promise has settled with the given state.
Finally(tp, state) == NoPromise

\* End of a task that called getAccessToken: a promise created in this task
\* and settled already (missing credentials) has had its finally run.
EndOfTask(tp, proms, created) ==
  IF tp # NoPromise /\ tp > created /\ proms[tp].state # "pending"
  THEN Finally(tp, proms[tp].state)
  ELSE tp

\* Identity-endpoint requests that have been sent and not answered
InFlightTokenRequests ==
  {p \in DOMAIN tokenPromises :
     tokenPromises[p].posted /\ tokenPromises[p].state = "pending"}

\* POSTs sent to the identity endpoint so far
TokenPosts == {p \in DOMAIN tokenPromises : tokenPromises[p].posted}


\* ============================================================== API client
\* response.ok
IsOk(status) == status >= 200 /\ status <= 299

\* What the network may answer to GET /api/thing/{id}
AssetResponses(id) ==
  {[net |-> FALSE, status |-> s, body |-> b] :
     s \in {t \in HttpStatuses : IsOk(t)}, b \in AssetBodies(id)}
  \cup {[net |-> FALSE, status |-> s, body |-> NoAsset] :
          s \in {t \in HttpStatuses : ~IsOk(t)}}
  \cup {[net |-> TRUE, status |-> 0, body |-> NoAsset]}

\* What the network may answer to GET /api/assets/{id}/pictures
PictureResponses(id) ==
  {[net |-> FALSE, status |-> s, body |-> b] :
     s \in {t \in HttpStatuses : IsOk(t)}, b \in PictureBodies(id)}
  \cup {[net |-> FALSE, status |-> s, body |-> EmptyPictures] :
          s \in {t \in HttpStatuses : ~IsOk(t)}}
  \cup {[net |-> TRUE, status |-> 0, body |-> EmptyPictures]}

\* Mutation of fetchAsset: no special case for 404
fetchAsset_no404(id, resp) ==
  IF resp.net THEN [err |-> NetworkError, data |-> NoAsset]
  ELSE IF ~IsOk(resp.status)
  THEN [err |-> Err("api-request-failed", resp.status, ErrorBody, ""),
        data |-> NoAsset]
  ELSE [err |-> NoError, data |-> resp.body]

\* fetchAsset after its request was answered by resp: the error it throws
\* (NoError when it returns) and the asset it returns.
fetchAsset(id, resp) ==
  IF resp.net THEN [err |-> NetworkError, data |-> NoAsset]
  ELSE IF ~IsOk(resp.status)
  THEN IF resp.status = 404
       THEN [err |-> Err("asset-not-found", 0, "", id), data |-> NoAsset]
       ELSE [err |-> Err("api-request-failed", resp.status, ErrorBody, ""),
             data |-> NoAsset]
  ELSE [err |-> NoError, data |-> resp.body]

\* Mutation of fetchPictures: 404 is thrown like every other non-2xx status
fetchPictures_404Throws(id, resp) ==
  IF resp.net THEN [err |-> NetworkError, data |-> EmptyPictures]
  ELSE IF ~IsOk(resp.status)
  THEN [err |-> Err("pictures-api-request-failed", resp.status, ErrorBody, ""),
        data |-> EmptyPictures]
  ELSE [err |-> NoError, data |-> resp.body]

\* fetchPictures after its request was answered by resp
fetchPictures(id, resp) ==
  IF resp.net THEN [err |-> NetworkError, data |-> EmptyPictures]
  ELSE IF ~IsOk(resp.status)
  THEN IF resp.status = 404
       THEN [err |-> NoError, data |-> EmptyPictures]
       ELSE [err |-> Err("pictures-api-request-failed", resp.status, ErrorBody, ""),
             data |-> EmptyPictures]
  ELSE [err |-> NoError, data |-> resp.body]

\* Outcomes of the batch fetchEventDocuments + fetchDocumentThumbnailUrl
DocsOutcomes == {"images", "no-images", "failed"}

\* Error a failed document or thumbnail request throws
DocumentsError == Err("documents-request-failed", 500, ErrorBody, "")


\* ================================================= AssetPage: fetch effect
\* In the operators below S is the state a task has produced so far:
\* [loads, tp, proms, asset, pictures, error, loading, assetBy, picturesBy].

NewLoad(id, assetCall, picsCall) ==
  [assetId |-> id, cancelled |-> FALSE, stage |-> "fetching",
   call |-> [asset |-> assetCall, pics |-> picsCall, docs |-> IdleCall],
   assetData |-> NoAsset, picsData |-> EmptyPictures, docResults |-> <<>>]

\* Mutation of fetchPicturesCaught: the catch handler is missing
fetchPicturesCaught_noCatch(picsCall, picsData) ==
  [err |-> picsCall.err, data |-> picsData]

\* fetchPictures(assetId!).catch(() => ({ pictureEvents: [] })): the error
\* the wrapped promise rejects with and the value it resolves to
fetchPicturesCaught(picsCall, picsData) ==
  [err |-> NoError,
   data |-> IF picsCall.err # NoError THEN EmptyPictures ELSE picsData]

\* assetData.events || []
EventsOrEmpty(a) == IF a.eventsAbsent THEN <<>> ELSE a.events

\* picturesData.pictureEvents || []
PictureEventsOrEmpty(d) == IF d.pictureEventsAbsent THEN <<>> ELSE d.pictureEvents

IsVisibleOther(e) == e.type = "OTHER" /\ e.state = "VISIBLE"

\* otherEvents of loadData
OtherEvents(a) == SelectSeq(EventsOrEmpty(a), IsVisibleOther)

\* allPictures of loadData before the document results are pushed
AllPictures(ld) ==
  PictureEventsOrEmpty(fetchPicturesCaught(ld.call.pics, ld.picsData).data)

\* The picture events built from the image documents of the OTHER events
DocPictureEvents(ld) ==
  [i \in 1..Len(OtherEvents(ld.assetData)) |->
     PictureEventOf(ld.assetId, OtherEvents(ld.assetData)[i].id, "documents")]

\* Mutation of Commit: setAsset alone is guarded by the cancelled flag
Commit_assetGuarded(S, l, allPictures) ==
  [S EXCEPT !.asset = IF S.loads[l].cancelled THEN @ ELSE S.loads[l].assetData,
            !.pictures = allPictures,
            !.assetBy = IF S.loads[l].cancelled THEN @ ELSE l,
            !.picturesBy = l,
            !.loading = IF S.loads[l].cancelled THEN @ ELSE FALSE,
            !.loads[l].stage = "done"]

\* setAsset(assetData); setPictures(allPictures); then the finally block
Commit(S, l, allPictures) ==
  [S EXCEPT !.asset = S.loads[l].assetData,
            !.pictures = allPictures,
            !.assetBy = l,
            !.picturesBy = l,
            !.loading = IF S.loads[l].cancelled THEN @ ELSE FALSE,
            !.loads[l].stage = "done"]

\* Mutation of Fail: setLoading(false) is at the end of the try block, not in
\* a finally block, so a load that fails leaves the loading state set
Fail_keepsLoading(S, l, err) ==
  [S EXCEPT !.error = IF S.loads[l].cancelled THEN @ ELSE err,
            !.loads[l].stage = "done"]

\* Mutation of Fail: the cancelled test of the catch block inverted
Fail_invertedGuard(S, l, err) ==
  [S EXCEPT !.error = IF S.loads[l].cancelled THEN err ELSE @,
            !.loading = IF S.loads[l].cancelled THEN @ ELSE FALSE,
            !.loads[l].stage = "done"]

\* The catch block of loadData with the error err, then the finally block
Fail(S, l, err) ==
  [S EXCEPT !.error = IF S.loads[l].cancelled THEN @ ELSE err,
            !.loading = IF S.loads[l].cancelled THEN @ ELSE FALSE,
            !.loads[l].stage = "done"]

\* loadData resumed after the await of the document batch
AdvanceDocs(S, l) ==
  LET ld == S.loads[l]
      d == ld.call.docs
  IN IF ld.stage = "docs" /\ d.pc = "done"
     THEN IF d.err # NoError
          THEN Fail(S, l, d.err)
          ELSE Commit(S, l, AllPictures(ld) \o ld.docResults)
     ELSE S

\* The document batch is issued: its calls go through getAccessToken
StartDocs(S, l) ==
  LET r == getAccessToken(S.tp, S.proms)
  IN [S EXCEPT !.tp = r.tp, !.proms = r.proms,
               !.loads[l].stage = "docs",
               !.loads[l].call.docs = r.call]

\* Mutation of AdvanceFetch: assetData.events is filtered without || [], so
\* an asset without events makes loadData throw a TypeError
AdvanceFetch_noEventsDefault(S, l) ==
  LET ld == S.loads[l]
      a == ld.call.asset
      p == ld.call.pics
      caught == fetchPicturesCaught(p, ld.picsData)
  IN IF ld.stage # "fetching" THEN AdvanceDocs(S, l)
     ELSE IF a.pc = "done" /\ a.err # NoError THEN Fail(S, l, a.err)
     ELSE IF p.pc = "done" /\ caught.err # NoError THEN Fail(S, l, caught.err)
     ELSE IF a.pc = "done" /\ p.pc = "done"
     THEN IF ld.cancelled
          THEN [S EXCEPT !.loads[l].stage = "done"]
          ELSE IF ld.assetData.eventsAbsent
               THEN Fail(S, l, Err("type-error", 0, "", ""))
               ELSE IF Len(OtherEvents(ld.assetData)) > 0
                    THEN AdvanceDocs(StartDocs(S, l), l)
                    ELSE Commit(S, l, AllPictures(ld))
     ELSE S

\* Mutation of AdvanceFetch: the document batch is issued without the test
\* otherEvents.length > 0
AdvanceFetch_alwaysDocs(S, l) ==
  LET ld == S.loads[l]
      a == ld.call.asset
      p == ld.call.pics
      caught == fetchPicturesCaught(p, ld.picsData)
  IN IF ld.stage # "fetching" THEN AdvanceDocs(S, l)
     ELSE IF a.pc = "done" /\ a.err # NoError THEN Fail(S, l, a.err)
     ELSE IF p.pc = "done" /\ caught.err # NoError THEN Fail(S, l, caught.err)
     ELSE IF a.pc = "done" /\ p.pc = "done"
     THEN IF ld.cancelled
          THEN [S EXCEPT !.loads[l].stage = "done"]
          ELSE IF Len(OtherEvents(ld.assetData)) >= 0
               THEN AdvanceDocs(StartDocs(S, l), l)
               ELSE Commit(S, l, AllPictures(ld))
     ELSE S

\* loadData resumed after await Promise.all([fetchAsset, fetchPictures.catch])
AdvanceFetch(S, l) ==
  LET ld == S.loads[l]
      a == ld.call.asset
      p == ld.call.pics
      caught == fetchPicturesCaught(p, ld.picsData)
  IN IF ld.stage # "fetching" THEN AdvanceDocs(S, l)
     ELSE IF a.pc = "done" /\ a.err # NoError THEN Fail(S, l, a.err)
     ELSE IF p.pc = "done" /\ caught.err # NoError THEN Fail(S, l, caught.err)
     ELSE IF a.pc = "done" /\ p.pc = "done"
     THEN IF ld.cancelled
          THEN [S EXCEPT !.loads[l].stage = "done"]
          ELSE IF Len(OtherEvents(ld.assetData)) > 0
               THEN AdvanceDocs(StartDocs(S, l), l)
               ELSE Commit(S, l, AllPictures(ld))
     ELSE S

RECURSIVE AdvanceFrom(_, _)
\* Every loadData that can run in this task runs, oldest first
AdvanceFrom(S, l) ==
  IF l > Len(S.loads) THEN S ELSE AdvanceFrom(AdvanceFetch(S, l), l + 1)

\* The state the current task starts from
Current ==
  [loads |-> loads, tp |-> tokenPromise, proms |-> tokenPromises,
   asset |-> asset, pictures |-> pictures, error |-> error,
   loading |-> loading, assetBy |-> assetBy, picturesBy |-> picturesBy]

\* What is still readable of a call of a superseded load: its position, the
\* promise it is suspended on, the token its pending request carries
ForgetCall(c) ==
  CASE c.pc = "token" -> c
    [] c.pc = "http" -> c
    [] OTHER -> [IdleCall EXCEPT !.pc = c.pc]

\* The record of a load is history kept for observation.  Once the load is
\* superseded (cancelled), the parts that neither the code nor a pending
\* request can read any more are dropped: the results of its finished
\* calls, its data unless the load is suspended on the document batch, and,
\* once loadData has returned, its asset id and the requests still pending
\* (nothing is chained on their answers).
Forget(ld) ==
  IF ~ld.cancelled THEN ld
  ELSE [ld EXCEPT
          !.assetId = IF ld.stage = "done" THEN NoId ELSE @,
          !.call = [c \in DOMAIN ld.call |->
                      IF ld.stage = "done"
                      THEN [IdleCall EXCEPT !.pc = "done"]
                      ELSE ForgetCall(ld.call[c])],
          !.assetData = IF ld.stage = "docs" THEN @ ELSE NoAsset,
          !.picsData = IF ld.stage = "docs" THEN @ ELSE EmptyPictures,
          !.docResults = <<>>]

\* A settled promise that tokenPromise no longer refers to can be read by
\* nobody: only the way it settled is kept.
ForgetPromise(proms, tp) ==
  [p \in DOMAIN proms |->
     IF p # tp /\ proms[p].state = "rejected"
     THEN [proms[p] EXCEPT !.err = NoError]
     ELSE proms[p]]

\* The task ends with state S
Becomes(S) ==
  /\ loads' = [i \in DOMAIN S.loads |-> Forget(S.loads[i])]
  /\ tokenPromise' = EndOfTask(S.tp, S.proms, Len(tokenPromises))
  /\ tokenPromises' = ForgetPromise(S.proms, tokenPromise')
  /\ asset' = S.asset
  /\ pictures' = S.pictures
  /\ error' = S.error
  /\ loading' = S.loading
  /\ assetBy' = S.assetBy
  /\ picturesBy' = S.picturesBy

\* Mutation of EffectNotConfigured: the branch returns without setError
EffectNotConfigured_noSetError(S) == [S EXCEPT !.loading = FALSE]

\* The effect's branch for !isApiConfigured(): setError, setLoading(false)
EffectNotConfigured(S) ==
  [S EXCEPT !.error = ConfigError, !.loading = FALSE]

\* The effect's cleanup functions: cancelled = true
Cleanup(lds) == [i \in DOMAIN lds |-> [lds[i] EXCEPT !.cancelled = TRUE]]

\* The effect body for a configured client: loadData() up to its first await
EffectLoad(S, id) ==
  LET r1 == getAccessToken(S.tp, S.proms)      \* fetchAsset
      r2 == getAccessToken(r1.tp, r1.proms)    \* fetchPictures
      S0 == [S EXCEPT !.loads = Append(S.loads, NewLoad(id, r1.call, r2.call)),
                      !.tp = r2.tp, !.proms = r2.proms,
                      !.loading = TRUE, !.error = NoError]
  IN AdvanceFetch(S0, Len(S0.loads))

\* The Filters component leaves the page (loading or error is rendered
\* instead): its state is discarded, and a later mount starts from
\* useState(false), useState(null), useRef('select').
FiltersUnmounted ==
  /\ isDragging' = FALSE
  /\ dragStart' = NoYear
  /\ dragMode' = "select"
  /\ entered' = {}

\* The route parameter changes to id: cleanup of the previous effect, then
\* the effect of AssetPage (which resets the filters of a configured client).
Navigate(id) ==
  /\ id # assetId
  /\ Len(loads) < MaxLoads
  /\ assetId' = id
  /\ LET S == [Current EXCEPT !.loads = Cleanup(loads)]
     IN IF ~isApiConfigured
        THEN Becomes(EffectNotConfigured(S))
        ELSE Becomes(EffectLoad(S, id))
  /\ selectedTypes' = IF isApiConfigured THEN SetOf(DEFAULT_EVENT_TYPES)
                      ELSE selectedTypes
  /\ selectedYears' = IF isApiConfigured THEN {} ELSE selectedYears
  /\ FiltersUnmounted
  /\ afterReset' = FALSE
  /\ resetFrom' = NoCard
  /\ UNCHANGED <<config, now, cachedToken, tokenExpiry, today, widgetVars>>

\* What the identity endpoint may answer
TokenOutcomes ==
  {[ok |-> TRUE, net |-> FALSE, status |-> 200, expires_in |-> e] :
     e \in ExpiresInChoices}
  \cup {[ok |-> FALSE, net |-> FALSE, status |-> s, expires_in |-> 0] :
          s \in AuthFailStatuses}
  \cup {[ok |-> FALSE, net |-> TRUE, status |-> 0, expires_in |-> 0]}

\* fetchNewToken after its POST was answered: the settled promise p
SettledToken(p, out) ==
  IF out.net
  THEN [state |-> "rejected", posted |-> TRUE, token |-> NoToken,
        err |-> NetworkError]
  ELSE IF ~out.ok
  THEN [state |-> "rejected", posted |-> TRUE, token |-> NoToken,
        err |-> Err("authentication-failed", out.status, ErrorBody, "")]
  ELSE [state |-> "resolved", posted |-> TRUE, token |-> p, err |-> NoError]

\* The callers suspended on promise p resume
Resume(lds, proms, p) ==
  [i \in DOMAIN lds |->
     [lds[i] EXCEPT !.call =
        [c \in DOMAIN lds[i].call |->
           IF lds[i].call[c].pc = "token" /\ lds[i].call[c].promise = p
           THEN Awaiting(proms, p)
           ELSE lds[i].call[c]]]]

\* The identity endpoint answers the POST of promise p
TokenResponse(p, out) ==
  /\ p \in DOMAIN tokenPromises
  /\ tokenPromises[p].state = "pending"
  /\ LET settled == SettledToken(p, out)
         proms == [tokenPromises EXCEPT ![p] = settled]
         S == [Current EXCEPT !.proms = proms,
                              !.tp = Finally(tokenPromise, settled.state),
                              !.loads = Resume(loads, proms, p)]
     IN /\ cachedToken' = IF settled.state = "resolved" THEN settled.token
                          ELSE cachedToken
        /\ tokenExpiry' = IF settled.state = "resolved"
                          THEN now + out.expires_in * 1000
                          ELSE tokenExpiry
        /\ Becomes(AdvanceFrom(S, 1))
  /\ UNCHANGED <<config, now, assetId>>
  /\ UNCHANGED <<filterVars, today, widgetVars>>

\* The asset endpoint answers the request of load l
AssetResponse(l, resp) ==
  /\ l \in DOMAIN loads
  /\ loads[l].call.asset.pc = "http"
  /\ LET res == fetchAsset(loads[l].assetId, resp)
         S == [Current EXCEPT
                 !.loads[l].call.asset =
                    [IdleCall EXCEPT !.pc = "done", !.sent = TRUE,
                                     !.status = resp.status, !.err = res.err],
                 !.loads[l].assetData = res.data]
     IN Becomes(AdvanceFetch(S, l))
  /\ UNCHANGED <<config, now, cachedToken, tokenExpiry, assetId>>
  /\ UNCHANGED <<filterVars, today, widgetVars>>

\* The pictures endpoint answers the request of load l
PicturesResponse(l, resp) ==
  /\ l \in DOMAIN loads
  /\ loads[l].call.pics.pc = "http"
  /\ LET res == fetchPictures(loads[l].assetId, resp)
         S == [Current EXCEPT
                 !.loads[l].call.pics =
                    [IdleCall EXCEPT !.pc = "done", !.sent = TRUE,
                                     !.status = resp.status, !.err = res.err],
                 !.loads[l].picsData = res.data]
     IN Becomes(AdvanceFetch(S, l))
  /\ UNCHANGED <<config, now, cachedToken, tokenExpiry, assetId>>
  /\ UNCHANGED <<filterVars, today, widgetVars>>

\* The document batch of load l completes
DocsResponse(l, out) ==
  /\ l \in DOMAIN loads
  /\ loads[l].call.docs.pc = "http"
  /\ LET S == [Current EXCEPT
                 !.loads[l].call.docs =
                    [IdleCall EXCEPT !.pc = "done", !.sent = TRUE,
                                     !.status = IF out = "failed" THEN 500 ELSE 200,
                                     !.err = IF out = "failed" THEN DocumentsError
                                             ELSE NoError],
                 !.loads[l].docResults =
                    IF out = "images" THEN DocPictureEvents(loads[l]) ELSE <<>>]
     IN Becomes(AdvanceDocs(S, l))
  /\ UNCHANGED <<config, now, cachedToken, tokenExpiry, assetId>>
  /\ UNCHANGED <<filterVars, today, widgetVars>>

\* Time passes
Tick ==
  /\ now < MaxTicks * TickMs
  /\ CacheValid(cachedToken, tokenExpiry, now)
  /\ now' = now + TickMs
  /\ UNCHANGED <<config, cachedToken, tokenExpiry, tokenPromise, tokenPromises,
                 loads, assetId, asset, pictures, loading, error, assetBy,
                 picturesBy>>
  /\ UNCHANGED <<filterVars, today, widgetVars>>

Init ==
  /\ config \in [username : Credentials, password : Credentials]
  /\ now = 0
  /\ cachedToken = NoToken
  /\ tokenExpiry = 0
  /\ tokenPromise = NoPromise
  /\ tokenPromises = <<>>
  /\ loads = <<>>
  /\ assetId = NoId
  /\ asset = NoAsset
  /\ pictures = <<>>
  /\ loading = TRUE
  /\ error = NoError
  /\ assetBy = NoLoad
  /\ picturesBy = NoLoad
  /\ selectedTypes = SetOf(DEFAULT_EVENT_TYPES)
  /\ selectedYears = {}
  /\ isDragging = FALSE
  /\ dragStart = NoYear
  /\ dragMode = "select"
  /\ entered = {}
  /\ afterReset = FALSE
  /\ resetFrom = NoCard
  /\ today = FirstToday
  /\ WidgetsAtRest

Next ==
  \/ \E id \in AssetIds : Navigate(id)
  \/ \E p \in DOMAIN tokenPromises : \E out \in TokenOutcomes : TokenResponse(p, out)
  \/ \E l \in DOMAIN loads : \E resp \in AssetResponses(loads[l].assetId) :
       AssetResponse(l, resp)
  \/ \E l \in DOMAIN loads : \E resp \in PictureResponses(loads[l].assetId) :
       PicturesResponse(l, resp)
  \/ \E l \in DOMAIN loads : \E out \in DocsOutcomes : DocsResponse(l, out)
  \/ Tick

Spec == Init /\ [][Next]_vars


\* ======================================================= what is rendered
\* The early returns of AssetPage's render
View ==
  IF assetId = NoId THEN "no-asset-id"
  ELSE IF loading THEN "loading"
  ELSE IF error # NoError THEN "error"
  ELSE IF asset = NoAsset THEN "asset-not-found"
  ELSE "asset"


\* ================================================ AssetPage: derived lists
\* Mutation of FilterEvents: the type test applied to every type, main or not
FilterEvents_allTypesFiltered(a, types, years) ==
  LET Keep(e) ==
        /\ e.state = "VISIBLE"
        /\ e.type \in types
        /\ (Cardinality(years) > 0 => getFullYear(e.creationDateTime) \in years)
  IN IF a = NoAsset THEN <<>> ELSE SelectSeq(EventsOrEmpty(a), Keep)

\* The filteredEvents memo for asset a, selectedTypes types, selectedYears years
FilterEvents(a, types, years) ==
  LET Keep(e) ==
        IF e.state # "VISIBLE" THEN FALSE
        ELSE IF Includes(MAIN_EVENT_TYPES, e.type) /\ e.type \notin types THEN FALSE
        ELSE IF Cardinality(years) > 0
                /\ getFullYear(e.creationDateTime) \notin years THEN FALSE
        ELSE TRUE
  IN IF a = NoAsset THEN <<>> ELSE SelectSeq(EventsOrEmpty(a), Keep)

\* The allVisibleEvents memo for asset a
VisibleEvents(a) ==
  LET Keep(e) == e.state = "VISIBLE"
  IN IF a = NoAsset THEN <<>> ELSE SelectSeq(EventsOrEmpty(a), Keep)

RECURSIVE SortAscending(_)
\* Array.from(set).sort((a, b) => a - b)
SortAscending(S) ==
  IF S = {} THEN <<>>
  ELSE LET m == CHOOSE x \in S : \A y \in S : x <= y
       IN <<m>> \o SortAscending(S \ {m})

\* The availableYears memo for asset a
AvailableYears(a) ==
  LET all == VisibleEvents(a)
  IN IF Len(all) = 0 THEN <<>>
     ELSE SortAscending({getFullYear(all[i].creationDateTime) : i \in DOMAIN all})

filteredEvents == FilterEvents(asset, selectedTypes, selectedYears)
allVisibleEvents == VisibleEvents(asset)
availableYears == AvailableYears(asset)

\* What the Timeline card of the rendered asset shows
TimelineCard ==
  IF Len(allVisibleEvents) = 0 THEN "no-events"
  ELSE IF Len(filteredEvents) > 0 THEN "timeline"
  ELSE "no-matching-events"

\* The event counter under the card: the numbers shown, none without events
EventCounts ==
  IF Len(allVisibleEvents) > 0
  THEN IF Len(filteredEvents) # Len(allVisibleEvents)
       THEN <<Len(filteredEvents), Len(allVisibleEvents)>>
       ELSE <<Len(allVisibleEvents)>>
  ELSE <<>>


\* ================================================================ Timeline
\* UTF-16 code units of the material strings, which Array.prototype.sort
\* compares when it is given no comparator
CodeUnits(str) ==
  CASE str = "PU" -> <<80, 85>>
    [] str = "Rubber" -> <<82, 117, 98, 98, 101, 114>>
    [] str = "Unknown" -> <<85, 110, 107, 110, 111, 119, 110>>

RECURSIVE SeqLess(_, _)
\* a < b for two strings given by their code units
SeqLess(a, b) ==
  IF Len(b) = 0 THEN FALSE
  ELSE IF Len(a) = 0 THEN TRUE
  ELSE IF Head(a) # Head(b) THEN Head(a) < Head(b)
  ELSE SeqLess(Tail(a), Tail(b))

StringLess(a, b) == SeqLess(CodeUnits(a), CodeUnits(b))

RECURSIVE SortStrings(_)
\* Array.from(set).sort()
SortStrings(S) ==
  IF S = {} THEN <<>>
  ELSE LET m == CHOOSE x \in S : \A y \in S \ {x} : StringLess(x, y)
       IN <<m>> \o SortStrings(S \ {m})

\* material || 'Unknown'
MaterialOrUnknown(material) ==
  IF material # NoMaterial THEN material ELSE "Unknown"

\* Mutation of getRecoveredMaterials: the materials in order of first
\* appearance, the sort left out
getRecoveredMaterials_unsorted(events) ==
  LET Recovered(e) == e.type = "RECOVERED" /\ e.state = "VISIBLE"
      rec == SelectSeq(events, Recovered)
      First(i) == \A j \in 1..(i - 1) :
                     MaterialOrUnknown(rec[j].coverMaterial)
                       # MaterialOrUnknown(rec[i].coverMaterial)
      firsts == SelectSeq([i \in DOMAIN rec |-> i], First)
  IN [k \in DOMAIN firsts |-> MaterialOrUnknown(rec[firsts[k]].coverMaterial)]

\* The unique materials of the visible RECOVERED events, sorted
getRecoveredMaterials(events) ==
  SortStrings({MaterialOrUnknown(events[i].coverMaterial) :
                 i \in {j \in DOMAIN events :
                          /\ events[j].type = "RECOVERED"
                          /\ events[j].state = "VISIBLE"}})

\* Mutation of getRecoveredGroupId: the material used as it is
getRecoveredGroupId_noUnknown(material) == "RECOVERED:" \o material

\* `RECOVERED:${material || 'Unknown'}`
getRecoveredGroupId(material) == "RECOVERED:" \o MaterialOrUnknown(material)

\* Mutation of createGroups: a static row is made for the first of its types
\* alone
createGroups_firstTypeOnly(eventTypes, events) ==
  LET materials == IF "RECOVERED" \in eventTypes
                   THEN getRecoveredMaterials(events) ELSE <<>>
      Active(g) == g.types[1] \in eventTypes
      static == SelectSeq(TIMELINE_GROUPS, Active)
  IN [i \in DOMAIN materials |-> getRecoveredGroupId(materials[i])]
     \o [i \in DOMAIN static |-> static[i].id]

\* The ids of the rows, in row order: the RECOVERED rows by material, then
\* the static rows that have one of the event types
createGroups(eventTypes, events) ==
  LET materials == IF "RECOVERED" \in eventTypes
                   THEN getRecoveredMaterials(events) ELSE <<>>
      Active(g) == \E i \in DOMAIN g.types : g.types[i] \in eventTypes
      static == SelectSeq(TIMELINE_GROUPS, Active)
  IN [i \in DOMAIN materials |-> getRecoveredGroupId(materials[i])]
     \o [i \in DOMAIN static |-> static[i].id]

\* The row key of an event
getGroupForEvent(event) ==
  IF event.type = "RECOVERED" THEN getRecoveredGroupId(event.coverMaterial)
  ELSE IF \E i \in DOMAIN TIMELINE_GROUPS :
            Includes(TIMELINE_GROUPS[i].types, event.type)
  THEN LET i == CHOOSE k \in DOMAIN TIMELINE_GROUPS :
                  /\ Includes(TIMELINE_GROUPS[k].types, event.type)
                  /\ \A j \in 1..(k - 1) :
                       ~Includes(TIMELINE_GROUPS[j].types, event.type)
       IN TIMELINE_GROUPS[i].id
  ELSE event.type

\* toLocaleDateString('en-US', {month: 'short'})
MonthShort ==
  <<"Jan", "Feb", "Mar", "Apr", "May", "Jun",
    "Jul", "Aug", "Sep", "Oct", "Nov", "Dec">>

\* toLocaleTimeString('en-US', {hour: '2-digit', minute: '2-digit',
\* hour12: false}): the hours and the minutes
TimeOfDay(date) == [hours |-> date.hours, minutes |-> date.minutes]

\* Mutation of formatDate: the time is appended whatever includeTime says
formatDate_alwaysTime(date, includeTime) ==
  <<date.day, MonthShort[date.month + 1], date.year, TimeOfDay(date)>>

\* formatDate of Timeline.tsx: the parts of "25 Aug 2025" or of
\* "25 Aug 2025, 14:30"
formatDate(date, includeTime) ==
  <<date.day, MonthShort[date.month + 1], date.year>>
    \o (IF includeTime THEN <<TimeOfDay(date)>> ELSE <<>>)

\* showTimeTypes of formatTooltip
showTimeTypes ==
  <<"PICTURE", "LINKED", "UNLINKED", "ENGRAVED", "INITIALIZED", "UNINITIALIZED">>

\* The date line of formatTooltip(event, assetId, pictures)
formatTooltip(event) ==
  formatDate(event.creationDateTime, Includes(showTimeTypes, event.type))

\* formatDate of EventSidebar.tsx
sidebarFormatDate(date, includeTime) ==
  <<date.day, MonthShort[date.month + 1], date.year>>
    \o (IF includeTime THEN <<TimeOfDay(date)>> ELSE <<>>)

\* showTimeTypes of EventSidebar
sidebarShowTimeTypes ==
  <<"PICTURE", "LINKED", "UNLINKED", "ENGRAVED", "INITIALIZED", "UNINITIALIZED">>

\* formattedDate of EventSidebar for the event that was clicked
EventSidebar(event) ==
  sidebarFormatDate(event.creationDateTime,
                    Includes(sidebarShowTimeTypes, event.type))

\* The vis-timeline items of the events.  config.icon throws a TypeError for
\* an event that reaches the map step without a style configuration.
eventsToTimelineItems(events) ==
  LET Kept(e) == e.state = "VISIBLE" /\ e.type \in EVENT_TYPE_CONFIG
      kept == SelectSeq(events, Kept)
  IN [threw |-> \E i \in DOMAIN kept : kept[i].type \notin EVENT_TYPE_CONFIG,
      items |-> [i \in DOMAIN kept |->
                   [id |-> kept[i].id, group |-> getGroupForEvent(kept[i]),
                    start |-> kept[i].creationDateTime,
                    title |-> formatTooltip(kept[i])]]]

Min(S) == CHOOSE x \in S : \A y \in S : x <= y
Max(S) == CHOOSE x \in S : \A y \in S : x >= y

\* Mutation of InitialWindow: the events are taken to be in date order, the
\* first and the last one giving the range
InitialWindow_assumesSorted(events, years, day) ==
  LET Visible(e) == e.state = "VISIBLE"
      visibleEvents == SelectSeq(events, Visible)
  IN IF Cardinality(years) > 0
     THEN [start |-> Date(Min(years), 0, 1), end |-> Date(Max(years), 11, 31)]
     ELSE IF Len(visibleEvents) > 0
     THEN [start |-> Date(getFullYear(visibleEvents[1].creationDateTime), 0, 1),
           end |-> Date(getFullYear(
                          visibleEvents[Len(visibleEvents)].creationDateTime),
                        11, 31)]
     ELSE [start |-> Date(getFullYear(day), 0, 1),
           end |-> Date(getFullYear(day), 11, 31)]

\* The initial window of the Timeline effect: options.start and options.end
InitialWindow(events, years, day) ==
  LET Visible(e) == e.state = "VISIBLE"
      visibleEvents == SelectSeq(events, Visible)
      eventYears == {getFullYear(visibleEvents[i].creationDateTime) :
                       i \in DOMAIN visibleEvents}
  IN IF Cardinality(years) > 0
     THEN [start |-> Date(Min(years), 0, 1), end |-> Date(Max(years), 11, 31)]
     ELSE IF Len(visibleEvents) > 0
     THEN [start |-> Date(Min(eventYears), 0, 1),
           end |-> Date(Max(eventYears), 11, 31)]
     ELSE [start |-> Date(getFullYear(day), 0, 1),
           end |-> Date(getFullYear(day), 11, 31)]

\* What the effect of the Timeline component hands to vis-timeline
TimelineOf(events, years, day) ==
  LET Visible(e) == e.state = "VISIBLE"
      visibleEvents == SelectSeq(events, Visible)
      eventTypes == {visibleEvents[i].type : i \in DOMAIN visibleEvents}
      made == eventsToTimelineItems(events)
  IN [groups |-> createGroups(eventTypes, visibleEvents),
      items |-> made.items,
      threw |-> made.threw,
      window |-> InitialWindow(events, years, day)]

NoTimeline ==
  [groups |-> <<>>, items |-> <<>>, threw |-> FALSE,
   window |-> [start |-> Date(0, 0, 0), end |-> Date(0, 0, 0)]]

\* The Timeline the page shows (NoTimeline when the component is not rendered)
timeline ==
  IF View = "asset" /\ TimelineCard = "timeline"
  THEN TimelineOf(filteredEvents, selectedYears, today)
  ELSE NoTimeline

\* ================================================================= Filters
\* Default selected types of Filters.tsx, used for hasActiveFilters
DEFAULT_TYPES == <<"RECOVERED", "REGRINDED", "PICTURE", "LINKED", "UNLINKED">>

\* Whether the Reset filters link is rendered
hasActiveFilters ==
  \/ Cardinality(selectedTypes) # Len(DEFAULT_TYPES)
  \/ ~(\A i \in DOMAIN DEFAULT_TYPES : DEFAULT_TYPES[i] \in selectedTypes)
  \/ Cardinality(selectedYears) > 0

\* The checkbox of a main type is toggled
handleTypeToggle(type) ==
  /\ View = "asset"
  /\ Includes(MAIN_EVENT_TYPES, type)
  /\ selectedTypes' = IF type \in selectedTypes
                      THEN selectedTypes \ {type}
                      ELSE selectedTypes \cup {type}
  /\ afterReset' = FALSE
  /\ resetFrom' = NoCard
  /\ UNCHANGED <<selectedYears, isDragging, dragStart, dragMode, entered>>
  /\ UNCHANGED <<dataVars, today, widgetVars>>

\* Mutation of ResetFilters: the type selection is kept
ResetFilters_keepsTypes(types, years) == [types |-> types, years |-> {}]

\* Mutation of ResetFilters: the year selection is kept
ResetFilters_keepsYears(types, years) ==
  [types |-> SetOf(DEFAULT_EVENT_TYPES), years |-> years]

\* The filter state handleReset sets, whatever the state before
ResetFilters(types, years) ==
  [types |-> SetOf(DEFAULT_EVENT_TYPES), years |-> {}]

\* Reset filters is clicked (the link of Filters, or the action of the
\* No Matching Events card)
handleReset ==
  /\ View = "asset"
  /\ hasActiveFilters \/ TimelineCard = "no-matching-events"
  /\ selectedTypes' = ResetFilters(selectedTypes, selectedYears).types
  /\ selectedYears' = ResetFilters(selectedTypes, selectedYears).years
  /\ afterReset' = TRUE
  /\ resetFrom' = TimelineCard
  /\ UNCHANGED <<isDragging, dragStart, dragMode, entered>>
  /\ UNCHANGED <<dataVars, today, widgetVars>>

\* The clear button of the year selector is clicked
clearYears ==
  /\ View = "asset"
  /\ Cardinality(selectedYears) > 0
  /\ selectedYears' = {}
  /\ afterReset' = FALSE
  /\ resetFrom' = NoCard
  /\ UNCHANGED <<selectedTypes, isDragging, dragStart, dragMode, entered>>
  /\ UNCHANGED <<dataVars, today, widgetVars>>

\* The mode of a gesture that starts on year
DragModeAt(years, year) == IF year \in years THEN "deselect" ELSE "select"

\* new Set(selectedYears) with the mode applied to the years of S
ApplyMode(years, mode, S) ==
  IF mode = "select" THEN years \cup S ELSE years \ S

\* Mouse button pressed on the button of an available year
handleYearMouseDown(year) ==
  /\ View = "asset"
  /\ Includes(availableYears, year)
  /\ isDragging' = TRUE
  /\ dragStart' = year
  /\ dragMode' = DragModeAt(selectedYears, year)
  /\ selectedYears' = ApplyMode(selectedYears, dragMode', {year})
  /\ entered' = {}
  /\ afterReset' = FALSE
  /\ resetFrom' = NoCard
  /\ UNCHANGED selectedTypes
  /\ UNCHANGED <<dataVars, today, widgetVars>>

\* Mutation of DragRange: the two endpoints alone
DragRange_endpoints(start, year, available) ==
  {y \in {start, year} : Includes(available, y)}

\* The years the loop of handleYearMouseEnter changes
DragRange(start, year, available) ==
  LET minYear == IF start < year THEN start ELSE year
      maxYear == IF start < year THEN year ELSE start
  IN {y \in minYear..maxYear : Includes(available, y)}

\* The pointer enters the button of an available year
handleYearMouseEnter(year) ==
  /\ View = "asset"
  /\ Includes(availableYears, year)
  /\ isDragging /\ dragStart # NoYear
  /\ selectedYears' = ApplyMode(selectedYears, dragMode,
                                DragRange(dragStart, year, availableYears))
  /\ entered' = entered \cup {year}
  /\ afterReset' = FALSE
  /\ resetFrom' = NoCard
  /\ UNCHANGED <<selectedTypes, isDragging, dragStart, dragMode>>
  /\ UNCHANGED <<dataVars, today, widgetVars>>

\* Mouse button released over the filters, or the pointer leaves them
handleMouseUp ==
  /\ View = "asset"
  /\ isDragging
  /\ isDragging' = FALSE
  /\ dragStart' = NoYear
  /\ entered' = {}
  /\ afterReset' = FALSE
  /\ resetFrom' = NoCard
  /\ UNCHANGED <<selectedTypes, selectedYears, dragMode>>
  /\ UNCHANGED <<dataVars, today, widgetVars>>

\* ================================================= the page with an asset
\* The page of a configured client after its first load has shown asset a: one
\* token refresh answered, the asset answered with a, the pictures endpoint
\* answered 404, and the document batch of the visible OTHER events, when
\* there is one, completed without images.
LoadedPage(a) ==
  LET ok == [ok |-> TRUE, net |-> FALSE, status |-> 200, expires_in |-> 11]
      Answered(status) ==
        [IdleCall EXCEPT !.pc = "done", !.sent = TRUE, !.status = status]
      ld == [NewLoad(a.id, Answered(200), Answered(404)) EXCEPT
               !.stage = "done",
               !.assetData = a,
               !.call.docs = IF Len(OtherEvents(a)) > 0
                             THEN Answered(200) ELSE IdleCall]
  IN /\ config = [username |-> "user", password |-> "user"]
     /\ now = 0
     /\ cachedToken = 1
     /\ tokenExpiry = ok.expires_in * 1000
     /\ tokenPromise = NoPromise
     /\ tokenPromises = <<SettledToken(1, ok)>>
     /\ loads = <<ld>>
     /\ assetId = a.id
     /\ asset = a
     /\ pictures = <<>>
     /\ loading = FALSE
     /\ error = NoError
     /\ assetBy = 1
     /\ picturesBy = 1

\* The year selector and the type checkboxes of a shown asset
FilterInit ==
  /\ \E a \in FilterAssets : LoadedPage(a)
  /\ selectedTypes = SetOf(DEFAULT_EVENT_TYPES)
  /\ selectedYears = {}
  /\ isDragging = FALSE
  /\ dragStart = NoYear
  /\ dragMode = "select"
  /\ entered = {}
  /\ afterReset = FALSE
  /\ resetFrom = NoCard
  /\ today = FirstToday
  /\ WidgetsAtRest

\* The types whose checkbox is toggled in the two page models
ToggledTypes == {"RECOVERED", "ENGRAVED"}

FilterNext ==
  \/ \E type \in ToggledTypes : handleTypeToggle(type)
  \/ handleReset
  \/ clearYears
  \/ \E year \in SetOf(availableYears) : handleYearMouseDown(year)
  \/ \E year \in SetOf(availableYears) : handleYearMouseEnter(year)
  \/ handleMouseUp

FilterSpec == FilterInit /\ [][FilterNext]_vars

\* The Timeline of a shown asset: any asset of TimelineAssets, on any of the
\* days, with any years selected that the year selector offers
TimelineInit ==
  /\ \E a \in TimelineAssets : LoadedPage(a)
  /\ selectedTypes = SetOf(DEFAULT_EVENT_TYPES)
  /\ selectedYears \in SUBSET SetOf(availableYears)
  /\ isDragging = FALSE
  /\ dragStart = NoYear
  /\ dragMode = "select"
  /\ entered = {}
  /\ afterReset = FALSE
  /\ resetFrom = NoCard
  /\ today \in Todays
  /\ WidgetsAtRest

TimelineNext ==
  \/ \E type \in ToggledTypes : handleTypeToggle(type)
  \/ handleReset
  \/ clearYears

TimelineSpec == TimelineInit /\ [][TimelineNext]_vars

\* The same page on one day: the items, tooltips and rows of the Timeline do
\* not read the current date
ItemsInit == TimelineInit /\ today = FirstToday

ItemsSpec == ItemsInit /\ [][TimelineNext]_vars

\* --------------------------------------------- vocabulary of the properties
CallNames == {"asset", "pics", "docs"}

\* The load the mounted page is waiting for or showing (NoLoad when none)
CurrentLoad == Len(loads)

\* Call c of load l performs getAccessToken in the step
Started(l, c) ==
  /\ l \in DOMAIN loads'
  /\ loads'[l].call[c].pc \in {"token", "http"}
  /\ (l \notin DOMAIN loads \/ loads[l].call[c].pc = "idle")

\* The test of getAccessToken's first branch, as the spec words it
TokenStillValid == cachedToken # NoToken /\ now + 10000 < tokenExpiry

\* Calls suspended on a token refresh
WaitingCalls ==
  {w \in (DOMAIN loads) \X CallNames : loads[w[1]].call[w[2]].pc = "token"}

\* Calls whose own request is in flight, carrying a token
RequestingCalls ==
  {w \in (DOMAIN loads) \X CallNames : loads[w[1]].call[w[2]].pc = "http"}

\* ================================================================== claims

\* C1: getAccessToken calls that overlap while no valid token is cached share
\* one identity-endpoint request: at most one POST is in flight at any time,
\* every suspended caller waits on that one request, all callers of a request
\* carry the same token once it is answered, and the fetchAsset and
\* fetchPictures calls of a load that end on a failed refresh end with the
\* same error.
C1_SingleFlight ==
  /\ Cardinality(InFlightTokenRequests) <= 1
  /\ \A w \in WaitingCalls :
       /\ loads[w[1]].call[w[2]].promise = tokenPromise
       /\ tokenPromise \in InFlightTokenRequests
  /\ \A v, w \in RequestingCalls :
       LET a == loads[v[1]].call[v[2]]
           b == loads[w[1]].call[w[2]]
       IN (a.promise # NoPromise /\ a.promise = b.promise) => a.token = b.token
  /\ \A l \in DOMAIN loads :
       LET a == loads[l].call.asset
           b == loads[l].call.pics
       IN (~loads[l].cancelled /\ a.pc = "done" /\ ~a.sent)
            => (b.pc = "done" /\ ~b.sent /\ b.err = a.err /\ a.err # NoError)

\* C1 witness: the callers of two loads (four calls) were suspended on one
\* refresh and now all carry the token of that single POST.
C1_Witness ==
  /\ Cardinality(TokenPosts) = 1
  /\ Cardinality({w \in RequestingCalls :
                    loads[w[1]].call[w[2]].promise = 1
                    /\ loads[w[1]].call[w[2]].token = cachedToken}) >= 4

\* C2: a getAccessToken call made while a token is cached and
\* now < tokenExpiry - 10 s sends nothing to the identity endpoint and
\* proceeds at once with the cached token.
C2_ValidTokenNoRequest ==
  [][TokenStillValid =>
       /\ Len(tokenPromises') = Len(tokenPromises)
       /\ \A l \in DOMAIN loads' : \A c \in CallNames :
            Started(l, c) =>
              /\ loads'[l].call[c].pc = "http"
              /\ loads'[l].call[c].promise = NoPromise
              /\ loads'[l].call[c].token = cachedToken]_vars

\* C2 witness: a call is sending its request with a token taken from the
\* cache (it joined no refresh) that an earlier load had fetched.
C2_Witness ==
  \E w \in RequestingCalls :
    /\ loads[w[1]].call[w[2]].promise = NoPromise
    /\ loads[w[1]].call[w[2]].token = cachedToken
    /\ cachedToken # NoToken
    /\ w[1] > 1

\* C3: the in-flight marker never holds a settled refresh, whether it
\* succeeded or failed, and a getAccessToken call made with no valid cached
\* token and no refresh in flight sends a new POST and waits for it.
C3_MarkerCleared ==
  [][/\ tokenPromise' # NoPromise
          => tokenPromises'[tokenPromise'].state = "pending"
     /\ (~TokenStillValid /\ InFlightTokenRequests = {}
          /\ \E l \in DOMAIN loads' : \E c \in CallNames : Started(l, c))
          => /\ Len(tokenPromises') = Len(tokenPromises) + 1
             /\ tokenPromises'[Len(tokenPromises')].posted
             /\ \A l \in DOMAIN loads' : \A c \in CallNames :
                  Started(l, c) =>
                    /\ loads'[l].call[c].pc = "token"
                    /\ loads'[l].call[c].promise = Len(tokenPromises')]_vars

\* C3 witness: a refresh failed, the marker was cleared, and a later call
\* has a new POST in flight.
C3_Witness ==
  \E p, q \in DOMAIN tokenPromises :
    /\ p < q
    /\ tokenPromises[p].state = "rejected"
    /\ tokenPromises[q].state = "pending"
    /\ tokenPromise = q
    /\ \E w \in WaitingCalls : loads[w[1]].call[w[2]].promise = q

\* C4: with the username or the password missing, a navigation ends with
\* the page out of the loading state, showing a configuration error, and no
\* request has been sent to the identity endpoint or to an API endpoint.
C4_MissingCredentialsNoRequest ==
  (config.username = "" \/ config.password = "") =>
    /\ TokenPosts = {}
    /\ \A l \in DOMAIN loads : \A c \in CallNames : ~loads[l].call[c].sent
    /\ assetId # NoId =>
         /\ ~loading
         /\ error.kind \in {"config", "missing-credentials"}
         /\ View = "error"

\* C4 witness: the password is missing and the page shows the error.
C4_Witness ==
  /\ config.username # ""
  /\ config.password = ""
  /\ assetId # NoId
  /\ View = "error"


\* Every loadData has returned and no request is pending
Settled ==
  /\ loads # <<>>
  /\ \A l \in DOMAIN loads :
       /\ loads[l].stage = "done"
       /\ \A c \in CallNames : loads[l].call[c].pc \notin {"token", "http"}

\* The page state is the one the load ld (which has returned) produced
ProducedBy(ld) ==
  IF ld.call.asset.err # NoError
  THEN ~loading /\ error = ld.call.asset.err
  ELSE IF ld.call.docs.err # NoError
  THEN ~loading /\ error = ld.call.docs.err
  ELSE /\ ~loading
       /\ error = NoError
       /\ asset = ld.assetData
       /\ pictures = AllPictures(ld) \o ld.docResults

\* C5: a load superseded by a navigation commits nothing: once all requests
\* of all loads have been answered, in whatever order, the page state is the
\* one produced by the load of the last navigation.
C5_StaleLoadDiscarded ==
  Settled => ProducedBy(loads[CurrentLoad])

\* C6: pictures are never held without an asset, and the pictures held were
\* committed by the load that committed the asset held.
C6_NoPicturesWithoutAsset ==
  /\ picturesBy = assetBy
  /\ pictures # <<>> => (asset # NoAsset /\ assetBy # NoLoad)

\* C6 witness: a load has committed an asset together with its pictures.
C6_Witness ==
  /\ pictures # <<>>
  /\ asset # NoAsset
  /\ assetBy = CurrentLoad
  /\ View = "asset"

\* Load l, not superseded, returns from loadData in the step
Finishing(l) ==
  /\ l \in DOMAIN loads'
  /\ loads'[l].stage = "done"
  /\ ~loads'[l].cancelled
  /\ (l \notin DOMAIN loads \/ loads[l].stage # "done")

\* fetchAsset returned an asset and fetchPictures threw
AssetOkPicturesFailed(ld) ==
  /\ ld.call.asset.pc = "done"
  /\ ld.call.asset.err = NoError
  /\ ld.call.pics.pc = "done"
  /\ ld.call.pics.err # NoError

\* C7 as stated: when fetchAsset succeeds and fetchPictures fails, the load
\* does not end in the error state and the asset is shown with an empty
\* picture list.
C7_PicturesBestEffort_AsStated ==
  [][\A l \in DOMAIN loads' :
       (Finishing(l) /\ AssetOkPicturesFailed(loads'[l])) =>
          /\ ~loading'
          /\ error' = NoError
          /\ asset' = loads'[l].assetData
          /\ pictures' = <<>>]_vars

\* C7 as amended: when fetchAsset succeeds and fetchPictures fails, the
\* failure itself never raises the error state and the picture events of the
\* pictures endpoint default to empty.  An asset without visible OTHER events
\* is shown with an empty picture list; for an asset with visible OTHER
\* events the document batch decides: the asset is shown with the picture
\* events built from the documents only, or the load ends in the error state
\* with the error of the document batch.
C7_PicturesBestEffort ==
  [][\A l \in DOMAIN loads' :
       (Finishing(l) /\ AssetOkPicturesFailed(loads'[l])) =>
          LET ld == loads'[l]
          IN /\ ~loading'
             /\ OtherEvents(ld.assetData) = <<>> =>
                  /\ error' = NoError
                  /\ asset' = ld.assetData
                  /\ pictures' = <<>>
             /\ OtherEvents(ld.assetData) # <<>> =>
                  IF ld.call.docs.err # NoError
                  THEN error' = ld.call.docs.err
                  ELSE /\ error' = NoError
                       /\ asset' = ld.assetData
                       /\ pictures' = ld.docResults]_vars

\* C7 witness: the pictures request failed with status 500 and the asset is
\* shown with no pictures.
C7_Witness ==
  /\ loads # <<>>
  /\ loads[CurrentLoad].stage = "done"
  /\ AssetOkPicturesFailed(loads[CurrentLoad])
  /\ loads[CurrentLoad].call.pics.status = 500
  /\ View = "asset"
  /\ asset = loads[CurrentLoad].assetData
  /\ pictures = <<>>

\* C8: fetchAsset turns status 404 into the not-found error naming the asset
\* id, every other non-2xx status into the generic API error carrying the
\* status and the response body, and a 2xx status into the asset of the
\* response with no error.
C8_FetchAssetStatusMapping ==
  \A l \in DOMAIN loads :
    LET ld == loads[l]
        a == ld.call.asset
    IN (a.pc = "done" /\ a.sent /\ a.status \in HttpStatuses) =>
         /\ a.status = 404 =>
              (a.err = Err("asset-not-found", 0, "", ld.assetId)
               /\ ld.assetData = NoAsset)
         /\ ((a.status < 200 \/ a.status > 299) /\ a.status # 404) =>
              (a.err = Err("api-request-failed", a.status, ErrorBody, "")
               /\ ld.assetData = NoAsset)
         /\ (a.status >= 200 /\ a.status <= 299) =>
              (a.err = NoError /\ ld.assetData \in AssetBodies(ld.assetId))

\* C8 witness: the asset request was answered 404 and the page shows the
\* not-found error.
C8_Witness ==
  \E l \in DOMAIN loads :
    /\ loads[l].call.asset.status = 404
    /\ loads[l].call.asset.err.kind = "asset-not-found"
    /\ error = loads[l].call.asset.err
    /\ View = "error"

\* C9: fetchPictures turns status 404 into an empty pictureEvents list and
\* no error, and every other non-2xx status into an error carrying the
\* status; a 2xx status yields the response with no error.
C9_FetchPictures404IsEmpty ==
  \A l \in DOMAIN loads :
    LET ld == loads[l]
        p == ld.call.pics
    IN (p.pc = "done" /\ p.sent /\ p.status \in HttpStatuses) =>
         /\ p.status = 404 => (p.err = NoError /\ ld.picsData = EmptyPictures)
         /\ ((p.status < 200 \/ p.status > 299) /\ p.status # 404) =>
              p.err = Err("pictures-api-request-failed", p.status, ErrorBody, "")
         /\ (p.status >= 200 /\ p.status <= 299) =>
              (p.err = NoError /\ ld.picsData \in PictureBodies(ld.assetId))

\* C9 witness: the pictures request was answered 404 and the asset is shown
\* with no pictures and no error.
C9_Witness ==
  \E l \in DOMAIN loads :
    /\ loads[l].call.pics.status = 404
    /\ loads[l].call.pics.err = NoError
    /\ loads[l].stage = "done"
    /\ View = "asset"
    /\ pictures = <<>>

\* Configuration, authentication, not-found and generic API errors
PropagatedKinds ==
  {"config", "missing-credentials", "authentication-failed", "asset-not-found",
   "api-request-failed", "pictures-api-request-failed",
   "documents-request-failed"}

\* C10 as stated: every configuration, authentication, not-found or generic
\* API error of the load of the current asset is the error the page shows
\* when the load returns.
C10_ErrorsPropagate_AsStated ==
  [][/\ (~isApiConfigured /\ assetId' # NoId) => (View' = "error")
     /\ \A l \in DOMAIN loads' : \A c \in CallNames :
          (Finishing(l) /\ loads'[l].call[c].err.kind \in PropagatedKinds) =>
             (View' = "error" /\ error' = loads'[l].call[c].err)]_vars

\* C10 as amended: every configuration error, and every authentication,
\* not-found or generic API error raised by fetchAsset or by the document
\* batch of the load of the current asset, is the error of the full-page
\* error state once the load has returned; an error raised by fetchPictures
\* alone is absorbed.
C10_ErrorsPropagate ==
  /\ (~isApiConfigured /\ assetId # NoId) => (View = "error" /\ error = ConfigError)
  /\ \A l \in DOMAIN loads : \A c \in {"asset", "docs"} :
       (~loads[l].cancelled /\ loads[l].stage = "done"
        /\ loads[l].call[c].err.kind \in PropagatedKinds) =>
          (View = "error" /\ error = loads[l].call[c].err)

\* C10 witness: the asset request was answered 500 and the page shows the
\* generic API error with that status.
C10_Witness ==
  /\ loads # <<>>
  /\ loads[CurrentLoad].call.asset.err.kind = "api-request-failed"
  /\ View = "error"
  /\ error.status = 500

\* C11: for every shown asset, every set of selected types and every set of
\* selected years, the derived visible events are exactly the asset's events
\* that are VISIBLE, whose type is not a filterable main type or is selected,
\* and whose creation year is selected when any year is; an event of a
\* non-filterable type is included whatever the type filter is.  Checked for
\* the filter state of the page and for every selection among the main types
\* that occur in the asset.
C11_FilteredEvents ==
  LET events == EventsOrEmpty(asset)
      Permitted(e, types) ==
        /\ e.state = "VISIBLE"
        /\ (e.type \notin SetOf(MAIN_EVENT_TYPES) \/ e.type \in types)
        /\ (selectedYears = {} \/ e.creationDateTime.year \in selectedYears)
      Exactly(shown, types) ==
        /\ SetOf(shown) = {e \in SetOf(events) : Permitted(e, types)}
        /\ Len(shown) = Cardinality(SetOf(shown))
      occurring == {e.type : e \in SetOf(events)} \cap SetOf(MAIN_EVENT_TYPES)
  IN /\ Exactly(filteredEvents, selectedTypes)
     /\ \A types \in SUBSET occurring :
          LET shown == FilterEvents(asset, types, selectedYears)
              shownSet == SetOf(shown)
          IN /\ Exactly(shown, types)
             /\ \A e \in SetOf(events) :
                  (e.type \notin SetOf(MAIN_EVENT_TYPES) /\ Permitted(e, {}))
                    => e \in shownSet

\* C11 witness: with RECOVERED deselected and a year selected, the page shows
\* an event of a non-filterable type and hides a RECOVERED event of the
\* selected year, an ENGRAVED event and an event of another year.
C11_Witness ==
  /\ View = "asset"
  /\ "RECOVERED" \notin selectedTypes
  /\ selectedYears = {2025}
  /\ \E e \in SetOf(filteredEvents) : e.type = "INITIALIZED"
  /\ \E e \in SetOf(EventsOrEmpty(asset)) :
       e.type = "RECOVERED" /\ e.creationDateTime.year = 2025
  /\ \E e \in SetOf(EventsOrEmpty(asset)) : e.type = "ENGRAVED"
  /\ Len(filteredEvents) = 1

\* C12: from any filter state reached by type toggles and year selections,
\* handleReset yields the default state (every main type except ENGRAVED
\* selected, no year selected), and a second reset right after the first
\* yields that same state: the state after a reset is a fixed point of reset.
C12_ResetRestoresDefault ==
  afterReset =>
    /\ selectedTypes = SetOf(MAIN_EVENT_TYPES) \ {"ENGRAVED"}
    /\ selectedYears = {}
    /\ ResetFilters(selectedTypes, selectedYears)
         = [types |-> selectedTypes, years |-> selectedYears]

\* C12 witness: a reset has just run on a page on which a year had been
\* selected and a deselecting gesture is still in progress.
C12_Witness ==
  /\ afterReset
  /\ isDragging
  /\ dragMode = "deselect"
  /\ dragStart = 2024

\* A step that starts a year-drag gesture: the button goes down on a year
MouseDownStep ==
  /\ isDragging'
  /\ \/ ~isDragging
     \/ dragStart' # dragStart
     \/ dragMode' # dragMode
     \/ (entered # {} /\ entered' = {})

\* The available years from the start year of the gesture to year y
Spanned(y) ==
  {a \in SetOf(availableYears) :
     (dragStart <= a /\ a <= y) \/ (y <= a /\ a <= dragStart)}

\* C13: within one year-drag gesture the mode is fixed at mousedown, deselect
\* if the start year was selected and select otherwise; every later mouseenter
\* of the gesture applies that mode to every available year between the start
\* year and the entered year and to no other year.  Hence while a gesture that
\* started on a selected year lasts, every year it has spanned is unselected.
C13_DragModeFixed ==
  [][ /\ MouseDownStep =>
           /\ dragMode' = IF dragStart' \in selectedYears
                          THEN "deselect" ELSE "select"
           /\ (dragStart' \in selectedYears') = (dragMode' = "select")
      /\ (isDragging /\ isDragging' /\ ~MouseDownStep) =>
           (dragMode' = dragMode /\ dragStart' = dragStart)
      /\ (isDragging /\ entered' # entered /\ entered' # {}) =>
           \A y \in entered' \ entered :
             /\ \A a \in Spanned(y) :
                  (a \in selectedYears') = (dragMode = "select")
             /\ \A a \in SetOf(availableYears) \ Spanned(y) :
                  (a \in selectedYears') = (a \in selectedYears)
      /\ (isDragging' /\ dragMode' = "deselect") =>
           \A y \in entered' \cup {dragStart'} :
             \A a \in SetOf(availableYears) :
               ((dragStart' <= a /\ a <= y) \/ (y <= a /\ a <= dragStart'))
                 => a \notin selectedYears'
    ]_vars

\* C13 witness: a gesture that started on the selected year 2023 has been
\* dragged across 2024 to 2025, and none of the three years is selected.
C13_Witness ==
  /\ isDragging
  /\ dragMode = "deselect"
  /\ dragStart = 2023
  /\ entered = {2024, 2025}
  /\ SetOf(availableYears) = {2023, 2024, 2025}
  /\ selectedYears = {}

\* C14: the row key of an event the Timeline shows is "RECOVERED:" followed
\* by its cover material ("Unknown" when the material is absent or empty) when
\* its type is RECOVERED; the id of the merge group when its type belongs to a
\* declared merge group (LINKED and UNLINKED both map to POSITION); and the
\* event type itself otherwise.
C14_RowKey ==
  LET items == timeline.items
      shown == SetOf(filteredEvents)
  IN
  \A i \in DOMAIN items :
    LET item == items[i]
        event == CHOOSE e \in shown : e.id = item.id
    IN item.group =
         CASE event.type = "RECOVERED" /\ event.coverMaterial = NoMaterial
                -> "RECOVERED:Unknown"
           [] event.type = "RECOVERED" /\ event.coverMaterial # NoMaterial
                -> "RECOVERED:" \o event.coverMaterial
           [] event.type \in {"LINKED", "UNLINKED"} -> "POSITION"
           [] OTHER -> event.type

\* C14 witness: the Timeline shows a RECOVERED event without material in the
\* row RECOVERED:Unknown, an UNLINKED event in the row POSITION and an
\* INITIALIZED event under its own type.
C14_Witness ==
  /\ \E i \in DOMAIN timeline.items :
       /\ timeline.items[i].group = "RECOVERED:Unknown"
       /\ \E e \in SetOf(filteredEvents) :
            /\ e.id = timeline.items[i].id
            /\ e.type = "RECOVERED" /\ e.coverMaterial = NoMaterial
  /\ \E i \in DOMAIN timeline.items :
       /\ timeline.items[i].group = "POSITION"
       /\ \E e \in SetOf(filteredEvents) :
            e.id = timeline.items[i].id /\ e.type = "UNLINKED"
  /\ \E i \in DOMAIN timeline.items : timeline.items[i].group = "INITIALIZED"

\* The RECOVERED rows in lexicographic order of the material
RecoveredRowOrder == <<"RECOVERED:PU", "RECOVERED:Rubber", "RECOVERED:Unknown">>

\* C15: the rows computed from the currently visible events contain no row
\* without a visible event, exactly one RECOVERED row per distinct material of
\* the visible RECOVERED events ("Unknown" for an absent material), and list
\* the RECOVERED rows first and in lexicographic order of the material,
\* whatever the order of the events.
C15_Rows ==
  LET shownTimeline == timeline
      rows == shownTimeline.groups
      items == shownTimeline.items
      recovered == {e \in SetOf(filteredEvents) : e.type = "RECOVERED"}
      IsRecoveredRow(g) == Includes(RecoveredRowOrder, g)
      recoveredRows == SelectSeq(rows, IsRecoveredRow)
      expected == SelectSeq(RecoveredRowOrder,
                            LAMBDA g : \E e \in recovered :
                               g = "RECOVERED:" \o (IF e.coverMaterial = NoMaterial
                                                    THEN "Unknown"
                                                    ELSE e.coverMaterial))
  IN /\ \A i \in DOMAIN rows :
          \E k \in DOMAIN items : items[k].group = rows[i]
     /\ Len(rows) = Cardinality(SetOf(rows))
     /\ recoveredRows = expected
     /\ \A i \in DOMAIN recoveredRows : rows[i] = recoveredRows[i]

\* C15 witness: RECOVERED events with the materials Rubber, PU, Rubber, in
\* that order and nothing else, give the rows RECOVERED:PU, RECOVERED:Rubber.
C15_Witness ==
  /\ Len(filteredEvents) = 3
  /\ \A i \in DOMAIN filteredEvents : filteredEvents[i].type = "RECOVERED"
  /\ [i \in DOMAIN filteredEvents |-> filteredEvents[i].coverMaterial]
       = <<"Rubber", "PU", "Rubber">>
  /\ timeline.groups = <<"RECOVERED:PU", "RECOVERED:Rubber">>

\* An event whose type has a style configuration
Styled(e) == e.type \in EVENT_TYPE_CONFIG

\* C16 (as stated): an event whose type is not in EVENT_TYPE_CONFIG never
\* reaches row assignment or styling, never makes the projection throw, and is
\* excluded from every row and from every event count the page displays.
C16_UnknownTypesExcluded ==
  View = "asset" =>
    LET all == Cardinality({e \in SetOf(allVisibleEvents) : Styled(e)})
        shown == Cardinality({e \in SetOf(filteredEvents) : Styled(e)})
    IN /\ ~timeline.threw
       /\ \A i \in DOMAIN timeline.items :
            \E e \in SetOf(filteredEvents) :
              e.id = timeline.items[i].id /\ Styled(e)
       /\ \A i \in DOMAIN timeline.groups :
            \E e \in SetOf(filteredEvents) :
              Styled(e) /\ getGroupForEvent(e) = timeline.groups[i]
       /\ EventCounts = IF all = 0 THEN <<>>
                        ELSE IF shown # all THEN <<shown, all>>
                        ELSE <<all>>
       /\ (all = 0) = (TimelineCard = "no-events")

\* The asset request of load ld was answered with an asset
AssetFetched(ld) ==
  /\ ld.call.asset.pc = "done"
  /\ ld.call.asset.err = NoError
  /\ ld.call.asset.sent

\* C17: when the asset of a load is fetched and its events collection is
\* null or absent, the load completes without an exception or error state,
\* no document request is made for it, and the visible-event projection and
\* the filtered projection under every filter are empty.
C17_AbsentEvents ==
  [][\A l \in DOMAIN loads' :
       (Finishing(l) /\ AssetFetched(loads'[l])
          /\ loads'[l].assetData.eventsAbsent) =>
          /\ ~loading'
          /\ error' = NoError
          /\ asset' = loads'[l].assetData
          /\ View' = "asset"
          /\ loads'[l].call.docs.pc = "idle"
          /\ VisibleEvents(asset') = <<>>
          /\ \A types \in SUBSET SetOf(MAIN_EVENT_TYPES) :
               \A years \in SUBSET {getFullYear(today)} :
                 FilterEvents(asset', types, years) = <<>>]_vars

\* C17 witness: the load of an asset whose JSON has no events has completed
\* and the page shows the asset with the No Events card.
C17_Witness ==
  /\ loads # <<>>
  /\ loads[CurrentLoad].stage = "done"
  /\ AssetFetched(loads[CurrentLoad])
  /\ asset = loads[CurrentLoad].assetData
  /\ asset # NoAsset
  /\ asset.eventsAbsent
  /\ View = "asset"
  /\ TimelineCard = "no-events"

\* The creation years of the VISIBLE events of the shown asset
EventYears == {getFullYear(e.creationDateTime) : e \in SetOf(allVisibleEvents)}

ShownYears == {getFullYear(e.creationDateTime) : e \in SetOf(filteredEvents)}

PaddingDays == 120     \* the padding past today the documentation names

\* Days of month m (from 0) of year y
DaysInMonth(y, m) ==
  IF m = 1 THEN (IF y % 4 = 0 /\ (y % 100 # 0 \/ y % 400 = 0) THEN 29 ELSE 28)
  ELSE IF m \in {3, 5, 8, 10} THEN 30 ELSE 31

RECURSIVE AddDays(_, _)
\* The calendar date n days after d
AddDays(d, n) ==
  IF d.day + n <= DaysInMonth(d.year, d.month)
  THEN Date(d.year, d.month, d.day + n)
  ELSE LET rest == n - (DaysInMonth(d.year, d.month) - d.day + 1)
       IN  IF d.month < 11 THEN AddDays(Date(d.year, d.month + 1, 1), rest)
           ELSE AddDays(Date(d.year + 1, 0, 1), rest)

\* C19 (as stated): with one or more years selected, the initial window of
\* the Timeline starts on Jan 1 of the earliest selected year and ends on
\* Dec 31 of the latest one, except that it ends on today plus the fixed
\* padding when the latest selected year is the current year.
C19_SelectedYearsWindow ==
  (View = "asset" /\ TimelineCard = "timeline" /\ selectedYears # {}) =>
    /\ timeline.window.start = Date(Min(selectedYears), 0, 1)
    /\ timeline.window.end =
         IF Max(selectedYears) = getFullYear(today)
         THEN AddDays(today, PaddingDays)
         ELSE Date(Max(selectedYears), 11, 31)

\* C20: when the asset of a load is fetched with zero events, the load ends
\* with the page out of the loading state, without an error and showing the
\* No Events card, and the batch of document and thumbnail requests was
\* never issued during the load.
C20_ZeroEventsLoad ==
  [][\A l \in DOMAIN loads' :
       (Finishing(l) /\ AssetFetched(loads'[l])
          /\ Len(EventsOrEmpty(loads'[l].assetData)) = 0) =>
          /\ ~loading'
          /\ error' = NoError
          /\ View' = "asset"
          /\ TimelineCard' = "no-events"
          /\ loads'[l].call.docs = IdleCall
          /\ loads'[l].docResults = <<>>]_vars

\* C20 witness: an asset answered with an empty events array is shown with
\* the No Events card and its load never issued the document batch.
C20_Witness ==
  /\ loads # <<>>
  /\ loads[CurrentLoad].stage = "done"
  /\ AssetFetched(loads[CurrentLoad])
  /\ asset = loads[CurrentLoad].assetData
  /\ ~asset.eventsAbsent
  /\ asset.events = <<>>
  /\ ~loading
  /\ error = NoError
  /\ TimelineCard = "no-events"
  /\ loads[CurrentLoad].call.docs = IdleCall

\* =============================================== Timeline, compressed view
\* Instants of this view are whole hours since the epoch of Date: getTime()
\* divided by the milliseconds of an hour.
MaxCompressed == 4     \* events given to the Timeline with the compressed view

\* const STANDARD_GAP_MS = DAY_MS * 14
STANDARD_GAP_MS == DAY_MS * 14

\* new Date(2020, 0, 1).getTime(): 18262 days after the epoch
baseDate == 18262 * DAY_MS

\* The thresholds the page may pass: the default and a smaller one
GapThresholds == {DefaultGapThresholdDays, 5}

\* The instant of the first event of the pool, 2023-01-01
PoolStart == 19358 * DAY_MS

\* What an event given to this Timeline may be.  The instants are 0, 1, 90,
\* 90 and an hour, 121 and 126 days after PoolStart; one event is HIDDEN.
CompressedKinds ==
  { [type |-> "RECOVERED", state |-> "VISIBLE", creationDateTime |-> PoolStart],
    [type |-> "LINKED", state |-> "VISIBLE",
     creationDateTime |-> PoolStart + DAY_MS],
    [type |-> "REGRINDED", state |-> "VISIBLE",
     creationDateTime |-> PoolStart + 90 * DAY_MS],
    [type |-> "PICTURE", state |-> "VISIBLE",
     creationDateTime |-> PoolStart + 90 * DAY_MS + 1],
    [type |-> "RECOVERED", state |-> "VISIBLE",
     creationDateTime |-> PoolStart + 121 * DAY_MS],
    [type |-> "UNLINKED", state |-> "VISIBLE",
     creationDateTime |-> PoolStart + 126 * DAY_MS],
    [type |-> "ENGRAVED", state |-> "HIDDEN",
     creationDateTime |-> PoolStart + 40 * DAY_MS] }

\* The event lists given to this Timeline: up to MaxCompressed events
CompressedInputs ==
  { [i \in DOMAIN kinds |->
       AssetEvent(EventIds[i], kinds[i].type, kinds[i].state,
                  kinds[i].creationDateTime, NoMaterial)] :
    kinds \in UNION {[1..n -> CompressedKinds] : n \in 0..MaxCompressed} }

RECURSIVE SortByOriginalDate(_)
\* Array.prototype.sort with (a, b) => a.originalDate - b.originalDate: the
\* sort is stable, entries of equal instant keep their order
SortByOriginalDate(seq) ==
  IF seq = <<>> THEN <<>>
  ELSE LET n == Len(seq)
           sorted == SortByOriginalDate(SubSeq(seq, 1, n - 1))
           last == seq[n]
           Before(x) == x.originalDate <= last.originalDate
           After(x) == x.originalDate > last.originalDate
       IN SelectSeq(sorted, Before) \o <<last>> \o SelectSeq(sorted, After)

\* Math.round of num / den for num >= 0
RoundDiv(num, den) == (2 * num + den) \div (2 * den)

\* Mutation of compressTimeline: an event of the same instant as the one
\* before it is placed on the same position
compressTimeline_sharedPosition(events, thresholdDays) ==
  LET Visible(e) == e.state = "VISIBLE"
      kept == SelectSeq(events, Visible)
      visibleEvents ==
        SortByOriginalDate([i \in DOMAIN kept |->
                              [event |-> kept[i],
                               originalDate |-> kept[i].creationDateTime]])
      Same(i) == i > 1 /\ visibleEvents[i].originalDate
                            = visibleEvents[i - 1].originalDate
      Position(i) == Cardinality({k \in 2..i : ~Same(k)})
  IN [compressedEvents |->
        [i \in DOMAIN visibleEvents |->
           [event |-> visibleEvents[i].event,
            originalDate |-> visibleEvents[i].originalDate,
            displayDate |-> baseDate + Position(i) * STANDARD_GAP_MS,
            displayIndex |-> Position(i)]],
      gaps |-> <<>>]

\* Mutation of compressTimeline: the gap is compared with >= instead of >
compressTimeline_gapAtThreshold(events, thresholdDays) ==
  LET Visible(e) == e.state = "VISIBLE"
      kept == SelectSeq(events, Visible)
      visibleEvents ==
        SortByOriginalDate([i \in DOMAIN kept |->
                              [event |-> kept[i],
                               originalDate |-> kept[i].creationDateTime]])
      gapMs(i) == visibleEvents[i].originalDate - visibleEvents[i - 1].originalDate
      Large(i) == i > 1 /\ gapMs(i) >= thresholdDays * DAY_MS
      later == [i \in DOMAIN visibleEvents |->
                  IF Large(i)
                  THEN << [id |-> "gap-" \o ToString(i - 1),
                           displayDate |-> baseDate + (i - 1) * STANDARD_GAP_MS
                                             - STANDARD_GAP_MS \div 2,
                           originalDays |-> RoundDiv(gapMs(i), DAY_MS),
                           beforeIndex |-> i - 1] >>
                  ELSE <<>>]
      Concat[i \in 0..Len(visibleEvents)] ==
        IF i = 0 THEN <<>> ELSE Concat[i - 1] \o later[i]
  IN [compressedEvents |->
        [i \in DOMAIN visibleEvents |->
           [event |-> visibleEvents[i].event,
            originalDate |-> visibleEvents[i].originalDate,
            displayDate |-> baseDate + (i - 1) * STANDARD_GAP_MS,
            displayIndex |-> i - 1]],
      gaps |-> Concat[Len(visibleEvents)]]

\* compressTimeline(events, thresholdDays).  The i-th entry here is the one
\* the source indexes i - 1; currentPosition of that entry is i - 1.
compressTimeline(events, thresholdDays) ==
  LET Visible(e) == e.state = "VISIBLE"
      kept == SelectSeq(events, Visible)
      visibleEvents ==
        SortByOriginalDate([i \in DOMAIN kept |->
                              [event |-> kept[i],
                               originalDate |-> kept[i].creationDateTime]])
      gapMs(i) == visibleEvents[i].originalDate - visibleEvents[i - 1].originalDate
      \* gapDays > thresholdDays with gapDays = gapMs / DAY_MS
      Large(i) == i > 1 /\ gapMs(i) > thresholdDays * DAY_MS
      later == [i \in DOMAIN visibleEvents |->
                  IF Large(i)
                  THEN << [id |-> "gap-" \o ToString(i - 1),
                           displayDate |-> baseDate + (i - 1) * STANDARD_GAP_MS
                                             - STANDARD_GAP_MS \div 2,
                           originalDays |-> RoundDiv(gapMs(i), DAY_MS),
                           beforeIndex |-> i - 1] >>
                  ELSE <<>>]
      Concat[i \in 0..Len(visibleEvents)] ==
        IF i = 0 THEN <<>> ELSE Concat[i - 1] \o later[i]
  IN [compressedEvents |->
        [i \in DOMAIN visibleEvents |->
           [event |-> visibleEvents[i].event,
            originalDate |-> visibleEvents[i].originalDate,
            displayDate |-> baseDate + (i - 1) * STANDARD_GAP_MS,
            displayIndex |-> i - 1]],
      gaps |-> Concat[Len(visibleEvents)]]

\* TIMELINE_GROUPS of this Timeline: no OTHER row, and a static RECOVERED row
COMPRESSED_TIMELINE_GROUPS ==
  << [id |-> "RECOVERED", types |-> <<"RECOVERED">>],
     [id |-> "REGRINDED", types |-> <<"REGRINDED">>],
     [id |-> "PICTURE", types |-> <<"PICTURE">>],
     [id |-> "ENGRAVED", types |-> <<"ENGRAVED">>],
     [id |-> "POSITION", types |-> <<"LINKED", "UNLINKED">>] >>

\* getGroupForType(type)
getGroupForType(type) ==
  LET found == {i \in DOMAIN COMPRESSED_TIMELINE_GROUPS :
                  Includes(COMPRESSED_TIMELINE_GROUPS[i].types, type)}
  IN IF found = {} THEN type
     ELSE COMPRESSED_TIMELINE_GROUPS[CHOOSE i \in found : \A j \in found : i <= j].id

\* compressedEventsToTimelineItems: the event items, then the gap items
compressedEventsToTimelineItems(compressedEvents, gaps) ==
  [i \in DOMAIN compressedEvents |->
     [id |-> compressedEvents[i].event.id,
      group |-> getGroupForType(compressedEvents[i].event.type),
      content |-> "",
      start |-> compressedEvents[i].displayDate,
      type |-> "point"]]
  \o
  [i \in DOMAIN gaps |->
     [id |-> gaps[i].id,
      group |-> "",
      content |-> ToString(gaps[i].originalDays) \o "d",
      start |-> gaps[i].displayDate,
      type |-> "background"]]

\* eventsToTimelineItems of this Timeline (normal mode)
normalEventsToTimelineItems(events) ==
  LET Visible(e) == e.state = "VISIBLE"
      kept == SelectSeq(events, Visible)
  IN [i \in DOMAIN kept |->
        [id |-> kept[i].id,
         group |-> getGroupForType(kept[i].type),
         content |-> "",
         start |-> kept[i].creationDateTime,
         type |-> "point"]]

\* The items the effect of this Timeline builds from its props
ItemsOf(events, isCompressed, thresholdDays) ==
  IF isCompressed
  THEN LET r == compressTimeline(events, thresholdDays)
       IN compressedEventsToTimelineItems(r.compressedEvents, r.gaps)
  ELSE normalEventsToTimelineItems(events)

\* The page at rest: nothing loaded, the filters at their defaults
PageAtRest ==
  /\ config = [username |-> "user", password |-> "user"]
  /\ now = 0
  /\ cachedToken = NoToken
  /\ tokenExpiry = 0
  /\ tokenPromise = NoPromise
  /\ tokenPromises = <<>>
  /\ loads = <<>>
  /\ assetId = NoId
  /\ asset = NoAsset
  /\ pictures = <<>>
  /\ loading = TRUE
  /\ error = NoError
  /\ assetBy = NoLoad
  /\ picturesBy = NoLoad
  /\ selectedTypes = SetOf(DEFAULT_EVENT_TYPES)
  /\ selectedYears = {}
  /\ isDragging = FALSE
  /\ dragStart = NoYear
  /\ dragMode = "select"
  /\ entered = {}
  /\ afterReset = FALSE
  /\ resetFrom = NoCard
  /\ today = FirstToday

\* The Timeline is mounted with an event list, in normal mode and with the
\* default threshold, and its effect has run
CompressInit ==
  /\ PageAtRest
  /\ timelineEvents \in CompressedInputs
  /\ compressed = FALSE
  /\ gapThresholdDays = DefaultGapThresholdDays
  /\ timelineItems = ItemsOf(timelineEvents, compressed, gapThresholdDays)
  /\ SidebarAtRest
  /\ LibraryAtRest

\* The effect of this Timeline, rerun when the page changes the compressed
\* prop or the threshold prop
TimelineEffect(isCompressed, thresholdDays) ==
  /\ <<isCompressed, thresholdDays>> # <<compressed, gapThresholdDays>>
  /\ compressed' = isCompressed
  /\ gapThresholdDays' = thresholdDays
  /\ timelineItems' = ItemsOf(timelineEvents, isCompressed, thresholdDays)
  /\ UNCHANGED <<dataVars, filterVars, today, timelineEvents,
                 sidebarVars, libraryVars>>

CompressNext ==
  \E isCompressed \in BOOLEAN, thresholdDays \in GapThresholds :
    TimelineEffect(isCompressed, thresholdDays)

CompressSpec == CompressInit /\ [][CompressNext]_vars

\* ------------------------------------------------ compressed view: claims
\* The event items of the widget, without the gap items
PointItems ==
  LET IsPoint(it) == it.type = "point" IN SelectSeq(timelineItems, IsPoint)

\* The gap items of the widget
GapItems ==
  LET IsGap(it) == it.type = "background" IN SelectSeq(timelineItems, IsGap)

\* The VISIBLE events given to the Timeline
VisibleInputs == {e \in SetOf(timelineEvents) : e.state = "VISIBLE"}

\* The event an item of the widget stands for
EventOfItem(it) == CHOOSE e \in SetOf(timelineEvents) : e.id = it.id

\* C21: in compressed mode there is exactly one event item per VISIBLE event
\* given to the Timeline and none for another event; the items are in the
\* order of the real instants of their events; the i-th of them (from 0) is
\* placed at the epoch plus i times 14 days, so the positions increase
\* strictly and neighbours are exactly 14 days apart whatever the real
\* distance of their events, equal instants included.
C21_EvenSpacing ==
  compressed =>
    /\ Len(PointItems) = Cardinality(VisibleInputs)
    /\ {PointItems[i].id : i \in DOMAIN PointItems} = {e.id : e \in VisibleInputs}
    /\ \A i \in DOMAIN PointItems :
         PointItems[i].start = baseDate + (i - 1) * 14 * DAY_MS
    /\ \A i \in DOMAIN PointItems : \A j \in DOMAIN PointItems :
         i < j =>
           /\ EventOfItem(PointItems[i]).creationDateTime
                <= EventOfItem(PointItems[j]).creationDateTime
           /\ PointItems[i].start < PointItems[j].start
           /\ (j = i + 1 =>
                 PointItems[j].start - PointItems[i].start = 14 * DAY_MS)

\* C21 witness: compressed mode with four VISIBLE events that were not given
\* in the order of their instants, two of them of the same instant and two
\* of them 120 days apart.
C21_Witness ==
  /\ compressed
  /\ Len(PointItems) = 4
  /\ \E i \in DOMAIN timelineEvents : \E j \in DOMAIN timelineEvents :
       i < j /\ timelineEvents[i].creationDateTime
                  > timelineEvents[j].creationDateTime
  /\ \E i \in 1..3 :
       EventOfItem(PointItems[i]).creationDateTime
         = EventOfItem(PointItems[i + 1]).creationDateTime
  /\ \E i \in 1..3 :
       EventOfItem(PointItems[i + 1]).creationDateTime
         - EventOfItem(PointItems[i]).creationDateTime = 120 * DAY_MS

\* The real time between the events of the k-th and the next event item
RealGap(k) ==
  EventOfItem(PointItems[k + 1]).creationDateTime
    - EventOfItem(PointItems[k]).creationDateTime

\* The gap items placed halfway between the k-th and the next event item
MarkersAfter(k) ==
  {g \in DOMAIN GapItems :
     2 * GapItems[g].start = PointItems[k].start + PointItems[k + 1].start}

\* C22: in compressed mode a pair of VISIBLE events that follow each other
\* in time has a gap marker if and only if their real distance is strictly
\* more than the threshold; such a pair has exactly one, placed at the
\* midpoint of the two synthetic positions and showing the real distance in
\* days, rounded; there is no other gap marker.
C22_GapMarkers ==
  compressed =>
    /\ \A k \in 1..(Len(PointItems) - 1) :
         /\ Cardinality(MarkersAfter(k)) =
              IF RealGap(k) > gapThresholdDays * DAY_MS THEN 1 ELSE 0
         /\ \A g \in MarkersAfter(k) :
              GapItems[g].content =
                ToString((RealGap(k) + DAY_MS \div 2) \div DAY_MS) \o "d"
    /\ \A g \in DOMAIN GapItems :
         \E k \in 1..(Len(PointItems) - 1) : g \in MarkersAfter(k)

\* C22 witness: compressed mode with the default threshold and four VISIBLE
\* events 1, 120 and 5 days apart: one marker, after the second event and
\* showing 120d.
C22_Witness ==
  /\ compressed
  /\ gapThresholdDays = 90
  /\ Len(PointItems) = 4
  /\ RealGap(1) = DAY_MS
  /\ RealGap(2) = 120 * DAY_MS
  /\ RealGap(3) = 5 * DAY_MS
  /\ Len(GapItems) = 1
  /\ MarkersAfter(2) = {1}
  /\ GapItems[1].content = "120d"

\* The types whose time of day the page shows
TimedTypes ==
  {"PICTURE", "LINKED", "UNLINKED", "ENGRAVED", "INITIALIZED", "UNINITIALIZED"}

\* The event of the shown asset an item of the Timeline stands for
ShownEventOf(it) == CHOOSE e \in SetOf(filteredEvents) : e.id = it.id

RowTypes ==
  {"RECOVERED"} \cup UNION {SetOf(TIMELINE_GROUPS[i].types) :
                              i \in DOMAIN TIMELINE_GROUPS}

\* C24 (as stated): the row key of every item of the shown Timeline is the
\* id of one of the rows made for the same event list.
C24_ItemsHaveRows ==
  (View = "asset" /\ TimelineCard = "timeline") =>
    \A i \in DOMAIN timeline.items :
      timeline.items[i].group \in SetOf(timeline.groups)

\* C24 (amended): the row key of an item of the shown Timeline is the id of
\* one of the rows made for the same event list exactly when the type of its
\* event is RECOVERED or a type of a static group; the item of an event of
\* another configured type (INITIALIZED, UNINITIALIZED, ROLLER_LINKED_TO_WO)
\* has its type as row key and there is no such row.
C24_RowTypeItemsHaveRows ==
  (View = "asset" /\ TimelineCard = "timeline") =>
    LET shownTimeline == timeline
        items == shownTimeline.items
        rows == SetOf(shownTimeline.groups)
        shown == SetOf(filteredEvents)
    IN
    \A i \in DOMAIN items :
      LET it == items[i]
          e == CHOOSE ev \in shown : ev.id = it.id
      IN /\ (it.group \in rows) = (e.type \in RowTypes)
         /\ (e.type \notin RowTypes => it.group = e.type)

\* C24 witness: the shown Timeline has an item of an UNLINKED event in the
\* POSITION row and an item of an INITIALIZED event, for which no row exists.
C24_Witness ==
  /\ View = "asset"
  /\ TimelineCard = "timeline"
  /\ \E i \in DOMAIN timeline.items :
       /\ ShownEventOf(timeline.items[i]).type = "UNLINKED"
       /\ timeline.items[i].group = "POSITION"
       /\ "POSITION" \in SetOf(timeline.groups)
  /\ \E i \in DOMAIN timeline.items :
       /\ ShownEventOf(timeline.items[i]).type = "INITIALIZED"
       /\ timeline.items[i].group \notin SetOf(timeline.groups)

\* Call c of load l leaves getAccessToken with a token in the step
GotToken(l, c) ==
  /\ l \in DOMAIN loads'
  /\ loads'[l].call[c].pc = "http"
  /\ (l \notin DOMAIN loads \/ loads[l].call[c].pc \in {"idle", "token"})

\* A refresh fails in the step: fetchNewToken rejects without a request, or
\* the identity endpoint does not answer or answers with a non-2xx status
RefreshFailed ==
  \E p \in DOMAIN tokenPromises' :
    /\ tokenPromises'[p].state = "rejected"
    /\ (p \notin DOMAIN tokenPromises \/ tokenPromises[p].state = "pending")

\* C25: a step in which a token refresh fails leaves cachedToken and
\* tokenExpiry as they were; and a call that leaves getAccessToken with a
\* token either had waited for a refresh that succeeds in that step and has
\* that refresh's token, or has the token that was cached when it called,
\* with now < tokenExpiry - 10 s; in both cases now is before the expiry of
\* the token.
C25_NoExpiredToken ==
  [][/\ RefreshFailed =>
          (cachedToken' = cachedToken /\ tokenExpiry' = tokenExpiry)
     /\ \A l \in DOMAIN loads' : \A c \in CallNames :
          GotToken(l, c) =>
            LET call == loads'[l].call[c] IN
            /\ call.token # NoToken
            /\ call.token = cachedToken'
            /\ now < tokenExpiry'
            /\ \/ /\ call.promise # NoPromise
                  /\ tokenPromises[call.promise].state = "pending"
                  /\ tokenPromises'[call.promise].state = "resolved"
                  /\ call.token = tokenPromises'[call.promise].token
               \/ /\ call.promise = NoPromise
                  /\ call.token = cachedToken
                  /\ now < tokenExpiry - 10000]_vars

\* C25 witness: a token was cached, time passed beyond its buffered expiry,
\* the refresh a later call started was refused by the identity endpoint,
\* the cache still holds the old token and its expiry, and that call ended
\* with the error, without a request of its own.
C25_Witness ==
  /\ cachedToken # NoToken
  /\ ~(now < tokenExpiry - 10000)
  /\ \E p \in DOMAIN tokenPromises :
       /\ tokenPromises[p].state = "rejected"
       /\ tokenPromises[p].posted
       /\ p > cachedToken
       /\ \E l \in DOMAIN loads :
            /\ loads[l].call.asset.err = tokenPromises[p].err
            /\ ~loads[l].call.asset.sent
            /\ loads[l].call.asset.token = NoToken

\* A request of load ld, or the token refresh it waits for, is not answered
Pending(ld) == \E c \in CallNames : ld.call[c].pc \in {"token", "http"}

\* The error loadData of load ld ended with (NoError when it committed)
LoadError(ld) ==
  IF ld.call.asset.err # NoError THEN ld.call.asset.err ELSE ld.call.docs.err

\* The load of the asset id the page is on
OnCurrentLoad == loads # <<>> /\ loads[CurrentLoad].assetId = assetId

C26_LoadOutcomeStates ==
  OnCurrentLoad =>
    LET ld == loads[CurrentLoad] IN
    /\ ld.stage # "done" => loading
    /\ ~Pending(ld) => ld.stage = "done"
    /\ (ld.stage = "done" /\ Pending(ld)) => ld.call.asset.err # NoError
    /\ ld.stage = "done" =>
         /\ ~loading
         /\ error = LoadError(ld)
         /\ LoadError(ld) # NoError => (View = "error" /\ error.kind # "none")
         /\ LoadError(ld) = NoError =>
              /\ View \in {"asset", "asset-not-found"}
              /\ assetBy # NoLoad
              /\ picturesBy = assetBy

\* C26 (amended), the step in which loadData of the current load returns
\* without an error: the asset of that load and its pictures are committed.
C26_LoadOutcomeSteps ==
  [][\A l \in DOMAIN loads' :
       (Finishing(l) /\ l = Len(loads') /\ LoadError(loads'[l]) = NoError) =>
          /\ ~loading'
          /\ asset' = loads'[l].assetData
          /\ pictures' = AllPictures(loads'[l]) \o loads'[l].docResults
          /\ assetBy' = l /\ picturesBy' = l]_vars

HasDefaultVisibleEvent ==
  \E e \in SetOf(allVisibleEvents) :
    \/ ~Includes(MAIN_EVENT_TYPES, e.type)
    \/ Includes(DEFAULT_EVENT_TYPES, e.type)

\* handleReset runs in the step, invoked from the No Matching Events card
ResetFromNoMatching ==
  /\ View = "asset"
  /\ TimelineCard = "no-matching-events"
  /\ afterReset'
  /\ resetFrom' = "no-matching-events"

\* C27 (as stated): when the page shows No Matching Events and the user
\* invokes its Reset filters action, the page then shows the Timeline with
\* at least one event.
C27_ResetShowsTimeline ==
  [][ResetFromNoMatching =>
       (TimelineCard' = "timeline" /\ Len(filteredEvents') >= 1)]_vars

\* C27 (amended): when the page shows No Matching Events and the user
\* invokes its Reset filters action, the page then shows the Timeline with
\* at least one event if the asset has a VISIBLE event whose type is in the
\* default selection or is not a filterable type; if it has none (its
\* VISIBLE events are all ENGRAVED) the page shows No Matching Events again.
C27_ResetShowsDefaultEvents ==
  [][ResetFromNoMatching =>
       IF HasDefaultVisibleEvent
       THEN TimelineCard' = "timeline" /\ Len(filteredEvents') >= 1
       ELSE TimelineCard' = "no-matching-events"]_vars

\* C27 witness: Reset filters was invoked from the No Matching Events card
\* of an asset with a VISIBLE ENGRAVED event and a VISIBLE event of a default
\* type of another year, and the Timeline is shown with an event.
C27_Witness ==
  /\ View = "asset"
  /\ afterReset
  /\ resetFrom = "no-matching-events"
  /\ TimelineCard = "timeline"
  /\ Len(filteredEvents) >= 1
  /\ \E e \in SetOf(allVisibleEvents) : e.type = "ENGRAVED"

\* C28 (as stated): the filters-are-active flag of Filters, which decides
\* whether the Reset filters link is rendered, is false when the selected
\* types are the default selection of the page and no year is selected
\* (after a load, after a reset) and true in every other filter state.
C28_ActiveFlag ==
  View = "asset" =>
    hasActiveFilters = (selectedTypes # SetOf(DEFAULT_EVENT_TYPES)
                          \/ selectedYears # {})

\* ============================================================ EventSidebar
\* Identifiers and URLs are sequences of characters; the fixed parts of a URL
\* are one element each, so no identifier matches inside them.
MaxSidebarEvents == 3  \* events of the asset the side panel is opened for

SidebarAssetId == <<"6", "1", "6", "8">>

\* The event identifiers the backend may give
SidebarEventIds ==
  { <<"1">>, <<"1", "2">>, <<"2", "1">>, <<"3">>, <<"6", "1">> }

\* getEventUrl(assetId, eventId), also the url of a PictureEvent
getEventUrl(id, eventId) ==
  <<"https://app.countroll.com/#/thing/">> \o id \o <<"/events/">> \o eventId

\* String.prototype.includes
StringIncludes(str, part) ==
  \E i \in 1..(Len(str) - Len(part) + 1) :
    SubSeq(str, i, i + Len(part) - 1) = part

\* The lists of the PictureEvents of some of the events ids, each once, in
\* any order
PictureLists(ids) ==
  { [i \in DOMAIN order |-> [url |-> getEventUrl(SidebarAssetId, order[i])]] :
    order \in {o \in UNION {[1..n -> ids] : n \in 0..Cardinality(ids)} :
                 \A i \in DOMAIN o : \A j \in DOMAIN o : o[i] = o[j] => i = j} }

\* getPicturesForEvent: pictures.find(p => p.url.includes(eventId))
getPicturesForEvent(eventId, pics) ==
  LET hits == {i \in DOMAIN pics : StringIncludes(pics[i].url, eventId)}
  IN IF hits = {} THEN NoPictureData
     ELSE pics[CHOOSE i \in hits : \A j \in hits : i <= j]

\* An asset with its pictures is shown and no event is selected
SidebarInit ==
  /\ PageAtRest
  /\ CompressAtRest
  /\ LibraryAtRest
  /\ sidebarEvents \in {ids \in SUBSET SidebarEventIds :
                          Cardinality(ids) \in 1..MaxSidebarEvents}
  /\ pictureList \in PictureLists(sidebarEvents)
  /\ selectedEvent = NoEvent
  /\ pictureData = NoPictureData

\* An item of the Timeline is clicked: setSelectedEvent(event), and the side
\* panel renders for it
onEventClick(eventId) ==
  /\ eventId \in sidebarEvents
  /\ selectedEvent' = eventId
  /\ pictureData' = getPicturesForEvent(eventId, pictureList)
  /\ UNCHANGED <<dataVars, filterVars, today, compressVars, libraryVars,
                 sidebarEvents, pictureList>>

\* The side panel is closed: setSelectedEvent(null)
sidebarOnClose ==
  /\ selectedEvent # NoEvent
  /\ selectedEvent' = NoEvent
  /\ pictureData' = NoPictureData
  /\ UNCHANGED <<dataVars, filterVars, today, compressVars, libraryVars,
                 sidebarEvents, pictureList>>

SidebarNext ==
  \/ \E eventId \in SidebarEventIds : onEventClick(eventId)
  \/ sidebarOnClose

SidebarSpec == SidebarInit /\ [][SidebarNext]_vars

\* C29 (as stated): the PictureEvent the side panel shows for the selected
\* event is the one whose deep-link URL is the URL of that event, never the
\* one of another event of the asset, whatever the identifiers of the events
\* and the order of the picture list.
C29_PicturesOfOwnEvent ==
  (selectedEvent # NoEvent /\ pictureData # NoPictureData) =>
    pictureData.url = getEventUrl(SidebarAssetId, selectedEvent)

\* ============================================================ PhotoLibrary
MaxPicturesPerEvent == 2  \* pictures of one PictureEvent

\* createdOn is an ISO timestamp: the date before the 'T' as <<year, month,
\* day>>, the time of day after it
CreatedOn(year, month, day, hours) ==
  [date |-> <<year, month, day>>, time |-> hours]

\* The pictures the backend may give; the same picture may be attached to
\* several events, which gives several photos on one date
PicturePool ==
  { [fileName |-> "a.jpg", createdOn |-> CreatedOn(2024, 5, 17, 9)],
    [fileName |-> "b.jpg", createdOn |-> CreatedOn(2024, 11, 2, 15)],
    [fileName |-> "c.jpg", createdOn |-> CreatedOn(2025, 1, 30, 9)] }

\* The events of the asset that may have pictures
LibraryEventIds == << <<"1">>, <<"1", "2">> >>

\* The picture lists of an asset: the i-th PictureEvent is the one of the
\* i-th event
LibraryInputs ==
  UNION { { [i \in 1..n |->
              [url |-> getEventUrl(SidebarAssetId, LibraryEventIds[i]),
               pictures |-> pics[i]]] :
            pics \in [1..n -> UNION {[1..k -> PicturePool] :
                                       k \in 0..MaxPicturesPerEvent}] } :
          n \in 0..Len(LibraryEventIds) }

\* url.split('/events/')[1] || ''
EventIdOfUrl(url) ==
  LET marks == {i \in DOMAIN url : url[i] = "/events/"}
  IN IF marks = {} THEN <<>>
     ELSE LET first == CHOOSE i \in marks : \A j \in marks : i <= j
              later == {j \in marks : j > first}
              stop == IF later = {} THEN Len(url) + 1
                      ELSE CHOOSE j \in later : \A k \in later : j <= k
          IN SubSeq(url, first + 1, stop - 1)

\* Array.prototype.flat on an array of arrays
RECURSIVE Flat(_)
Flat(seqs) ==
  IF seqs = <<>> THEN <<>> ELSE Head(seqs) \o Flat(Tail(seqs))

\* allPhotos = pictures.flatMap(pe => pe.pictures.map(...))
allPhotos(pics) ==
  LET photosOf(pe) ==
        [i \in DOMAIN pe.pictures |->
           [fileName |-> pe.pictures[i].fileName,
            createdOn |-> pe.pictures[i].createdOn,
            eventId |-> EventIdOfUrl(pe.url),
            eventUrl |-> pe.url]]
  IN Flat([n \in DOMAIN pics |-> photosOf(pics[n])])

\* photo.createdOn.split('T')[0]
dateKey(photo) == photo.createdOn.date

\* a.localeCompare(b) < 0 on two ISO dates: year, then month, then day
DateKeyLess(a, b) ==
  \/ a[1] < b[1]
  \/ a[1] = b[1] /\ a[2] < b[2]
  \/ a[1] = b[1] /\ a[2] = b[2] /\ a[3] < b[3]

\* The keys of a set, newest first
RECURSIVE NewestFirst(_)
NewestFirst(keys) ==
  IF keys = {} THEN <<>>
  ELSE LET newest == CHOOSE k \in keys :
                       \A other \in keys \ {k} : DateKeyLess(other, k)
       IN <<newest>> \o NewestFirst(keys \ {newest})

\* grouped, then sortedGroups: one entry <<dateKey, photos>> per date, newest
\* date first, the photos of a date in the order of allPhotos
sortedGroups(pics) ==
  LET all == allPhotos(pics)
      keys == NewestFirst({dateKey(all[i]) : i \in DOMAIN all})
      onDate(k) == LET sameDate(photo) == dateKey(photo) = k
                   IN SelectSeq(all, sameDate)
  IN [g \in DOMAIN keys |-> <<keys[g], onDate(keys[g])>>]

\* displayPhotos = sortedGroups.flatMap(([, photos]) => photos)
displayPhotos(pics) ==
  LET groups == sortedGroups(pics)
  IN Flat([g \in DOMAIN groups |-> groups[g][2]])

\* The index a click on thumbnail i of the group of date key computes: the
\* sizes of the groups before it, plus i
flatIndex_withinGroup(groups, key, i) ==
  i

RECURSIVE flatIndex(_, _, _)
flatIndex(groups, key, i) ==
  IF groups = <<>> THEN 0
  ELSE IF Head(groups)[1] = key THEN i
  ELSE Len(Head(groups)[2]) + flatIndex(Tail(groups), key, i)

\* PhotoViewer: hasPrev, hasNext
hasPrev(currentIndex) == currentIndex > 0
hasNext(currentIndex, photos) == currentIndex < Len(photos) - 1

\* PhotoViewer.handleKeyDown: the viewer index after a key
handleKeyDown(key, currentIndex, photos) ==
  IF key = "Escape" THEN NoIndex
  ELSE IF key = "ArrowLeft" /\ hasPrev(currentIndex) THEN currentIndex - 1
  ELSE IF key = "ArrowRight" /\ hasNext(currentIndex, photos)
       THEN currentIndex + 1
  ELSE currentIndex

\* PhotoLibrary.handleKey: whether the library stays open after a key
handleKey(key, index) == ~(key = "Escape" /\ index = NoIndex)

Keys == {"Escape", "ArrowLeft", "ArrowRight"}

\* An asset with its pictures is shown, the library closed
LibraryInit ==
  /\ PageAtRest
  /\ CompressAtRest
  /\ SidebarAtRest
  /\ libraryPictures \in LibraryInputs
  /\ showPhotoLibrary = FALSE
  /\ viewerIndex = NoIndex
  /\ lastInput = NoInput

LibraryUnchanged ==
  UNCHANGED <<dataVars, filterVars, today, compressVars, sidebarVars,
              libraryPictures>>

\* The Photos card of the page, rendered when there is a photo
openPhotoLibrary ==
  /\ ~showPhotoLibrary
  /\ Len(allPhotos(libraryPictures)) > 0
  /\ showPhotoLibrary' = TRUE
  /\ viewerIndex' = NoIndex
  /\ lastInput' = [kind |-> "open"]
  /\ LibraryUnchanged

\* Thumbnail i (from 0) of group g is clicked
thumbnailClick(g, i) ==
  LET groups == sortedGroups(libraryPictures)
  IN /\ showPhotoLibrary
     /\ viewerIndex = NoIndex
     /\ g \in DOMAIN groups
     /\ i \in 0..(Len(groups[g][2]) - 1)
     /\ viewerIndex' = flatIndex(groups, groups[g][1], i)
     /\ lastInput' = [kind |-> "thumbnail", group |-> g, i |-> i,
                      afterEscape |-> /\ lastInput.kind = "keydown"
                                      /\ lastInput.key = "Escape"
                                      /\ lastInput.viewerOpen]
     /\ UNCHANGED showPhotoLibrary
     /\ LibraryUnchanged

\* The Previous button of the viewer, rendered when hasPrev
viewerPrevious ==
  /\ showPhotoLibrary
  /\ viewerIndex # NoIndex
  /\ hasPrev(viewerIndex)
  /\ viewerIndex' = viewerIndex - 1
  /\ lastInput' = [kind |-> "previous"]
  /\ UNCHANGED showPhotoLibrary
  /\ LibraryUnchanged

\* The Next button of the viewer, rendered when hasNext
viewerNext ==
  /\ showPhotoLibrary
  /\ viewerIndex # NoIndex
  /\ hasNext(viewerIndex, displayPhotos(libraryPictures))
  /\ viewerIndex' = viewerIndex + 1
  /\ lastInput' = [kind |-> "next"]
  /\ UNCHANGED showPhotoLibrary
  /\ LibraryUnchanged

\* The Close button of the viewer
viewerClose ==
  /\ showPhotoLibrary
  /\ viewerIndex # NoIndex
  /\ viewerIndex' = NoIndex
  /\ lastInput' = [kind |-> "close-viewer"]
  /\ UNCHANGED showPhotoLibrary
  /\ LibraryUnchanged

\* The Close button or the backdrop of the library, which the viewer covers
\* while it is open
libraryClose ==
  /\ showPhotoLibrary
  /\ viewerIndex = NoIndex
  /\ showPhotoLibrary' = FALSE
  /\ viewerIndex' = NoIndex
  /\ lastInput' = [kind |-> "close-library"]
  /\ LibraryUnchanged

\* A key is pressed while the library is open: the listener of the library
\* runs, and the one of the viewer when the viewer is mounted
keydown(key) ==
  /\ showPhotoLibrary
  /\ showPhotoLibrary' = handleKey(key, viewerIndex)
  /\ viewerIndex' =
       IF viewerIndex = NoIndex THEN NoIndex
       ELSE handleKeyDown(key, viewerIndex, displayPhotos(libraryPictures))
  /\ lastInput' = [kind |-> "keydown", key |-> key,
                   viewerOpen |-> viewerIndex # NoIndex]
  /\ LibraryUnchanged

LibraryNext ==
  \/ openPhotoLibrary
  \/ \E g \in 1..Cardinality(PicturePool) :
       \E i \in 0..(Len(LibraryEventIds) * MaxPicturesPerEvent) :
         thumbnailClick(g, i)
  \/ viewerPrevious
  \/ viewerNext
  \/ viewerClose
  \/ libraryClose
  \/ \E key \in Keys : keydown(key)

LibrarySpec == LibraryInit /\ [][LibraryNext]_vars

\* The photos of the library on a date newer than that of group g
NewerPhotos(g) ==
  LET all == allPhotos(libraryPictures)
      groups == sortedGroups(libraryPictures)
  IN {n \in DOMAIN all : DateKeyLess(groups[g][1], dateKey(all[n]))}

====
